---- MODULE Spec2Model ----
(***************************************************************************)
(* Orchestration core of CUGAr-SALES.                                      *)
(*                                                                         *)
(* Part 1: the step-execution state machine of                             *)
(* ProductionDemo.execute_plan_manual (demo_production.py).  A plan is an  *)
(* input; the coordinator walks its steps in order, checks the budget,     *)
(* obtains an approval for propose/execute steps, invokes the tool and     *)
(* records one outcome per step.                                           *)
(*                                                                         *)
(* Costs and ceilings are counted in tenths of a cost unit, so that the    *)
(* planner's 0.5 / 1.0 / 0.7 and the tests' 60.0 / 50.0 / 100.0 are all    *)
(* integers (5, 10, 7, 600, 500, 1000).                                    *)
(*                                                                         *)
(* Part 2: the failure taxonomy, the retry policies and                    *)
(* RetryExecutor.execute_with_retry (cuga/orchestrator/failures.py).       *)
(* Delays are counted in tenths of a second and the jitter fraction in     *)
(* percent, so that 1.0 s / 60.0 s / 0.1 are 10 / 600 / 10.                *)
(*                                                                         *)
(* Part 3: IntelligentPlanner (cuga/orchestrator/intelligent_planner.py):  *)
(* construction, create_plan calls that interleave at the await of the     *)
(* LLM path, the LLM adapter's answers and the rule-based fallback.        *)
(*                                                                         *)
(* Part 4: run_demo's chain, a plan made by the planner handed to          *)
(* execute_plan_manual.                                                    *)
(*                                                                         *)
(* Part 5: MetricsAggregator (cuga/orchestrator/metrics.py): runs that     *)
(* report to record_execution and a reader of get_summary, as coroutines   *)
(* of one event loop.                                                      *)
(***************************************************************************)
EXTENDS Integers, Sequences, FiniteSets, TLC

VARIABLES
    plan,                 \* the Plan's steps as the coordinator sees them now
    built,                \* the steps as the planner / the caller built them
    budget,               \* plan.budget: the ToolBudget the plan was built with
    budget_limit,         \* budget_limit = plan.budget.cost_ceiling
    pc,                   \* position of the coroutine in the for loop
    step_ptr,             \* 1-based position of the loop in plan.steps
    results,              \* results: list of per-step outcome dicts
    step_outputs,         \* step_outputs: dict, only key 2 is ever written
    budget_used,          \* {"total", "by_domain", "by_tool"}
    approval_requests,    \* list of approval responses
    total_approval_time,  \* sum of the wait times
    pending_request,      \* approval_request: the request being waited on
    approval_response,    \* approval_response of this iteration, << >> for None
    tool_calls,           \* the tool collaborators' view: every invocation
    raised,               \* the exception that left execute_plan_manual
    returned,             \* the dict execute_plan_manual returned
    policy,               \* RetryExecutor.policy
    attempt,              \* attempt: index of the current attempt
    last_failure,         \* last_failure, << >> for None
    retry_pc,             \* position of execute_with_retry
    invocations,          \* how many times operation() has been called
    delays,               \* the values policy.get_delay returned, in order
    retry_exit,           \* how execute_with_retry was left
    exc,                  \* the exception handed to FailureContext.from_exception
    detected,             \* the FailureContext it returned, << >> before the call
    partial,              \* a PartialResult
    partial_dict,         \* what partial.to_dict() returned, << >> before the call
    planner,              \* the IntelligentPlanner instance, << >> before __init__
    calls,                \* the create_plan calls: arguments, position, result
    adapter_log,          \* the LLM adapter's view: every method call it received
    metrics,              \* the MetricsAggregator's fields, << >> before __init__
    reporters,            \* the coroutines that report a run: position, locals
    reader,               \* the coroutine that calls get_summary: position, result
    running,              \* the coroutine that holds the event loop, or "none"
    record_log            \* the callers' view: the record_execution calls that returned

plan_vars == <<plan, built, budget, budget_limit, pc, step_ptr, results, step_outputs,
               budget_used, approval_requests, total_approval_time,
               pending_request, approval_response, tool_calls, raised, returned>>

retry_vars == <<policy, attempt, last_failure, retry_pc, invocations, delays,
                retry_exit>>

classify_vars == <<exc, detected>>

partial_vars == <<partial, partial_dict>>

planner_vars == <<planner, calls, adapter_log>>

metrics_vars == <<metrics, reporters, reader, running, record_log>>

vars == <<plan_vars, retry_vars, classify_vars, partial_vars, planner_vars,
          metrics_vars>>

\* what the actions of each part leave alone
not_plan_vars == <<retry_vars, classify_vars, partial_vars, planner_vars, metrics_vars>>

not_retry_vars == <<plan_vars, classify_vars, partial_vars, planner_vars, metrics_vars>>

not_classify_vars == <<plan_vars, retry_vars, partial_vars, planner_vars, metrics_vars>>

not_partial_vars == <<plan_vars, retry_vars, classify_vars, planner_vars, metrics_vars>>

not_planner_vars == <<plan_vars, retry_vars, classify_vars, partial_vars, metrics_vars>>

not_metrics_vars == <<plan_vars, retry_vars, classify_vars, partial_vars, planner_vars>>

-----------------------------------------------------------------------------
(* Bounds of the model.                                                    *)

MaxSteps == 3

-----------------------------------------------------------------------------
(* Python dicts: functions whose domain is the set of keys present.        *)

EmptyDict == [k \in {} |-> 0]

DictGet(d, k, default) == IF k \in DOMAIN d THEN d[k] ELSE default

DictSet(d, k, v) == [x \in (DOMAIN d) \cup {k} |-> IF x = k THEN v ELSE d[x]]

RECURSIVE SumOver(_, _)
SumOver(d, keys) ==
    IF keys = {} THEN 0
    ELSE LET k == CHOOSE x \in keys : TRUE
         IN  d[k] + SumOver(d, keys \ {k})

DictSum(d) == SumOver(d, DOMAIN d)

-----------------------------------------------------------------------------
(* The inputs: plans.                                                      *)

KnownTools == {"score_account_fit", "draft_outbound_message",
               "assess_message_quality", "qualify_opportunity"}

\* The text fields of a step's input.  "" is the empty sequence; the text a
\* drafting call of step k returned is a sequence naming the field and k.
EmptyText == << >>

PlaceholderInput == [message |-> EmptyText, subject |-> EmptyText]

\* Metadata mappings a PlanStep can carry: the planner's four
\* (intelligent_planner.py 236-294) and hand-built ones as in the tests
\* (metadata={"domain": "test"}), some with keys missing.
StepShapes ==
    { [tool |-> "score_account_fit",
       metadata |-> [domain |-> "intelligence", side_effect_class |-> "read-only"]],
      [tool |-> "draft_outbound_message",
       metadata |-> [domain |-> "engagement", side_effect_class |-> "propose"]],
      [tool |-> "assess_message_quality",
       metadata |-> [domain |-> "engagement", side_effect_class |-> "read-only",
                     depends_on |-> 2]],
      [tool |-> "assess_message_quality",
       metadata |-> [domain |-> "engagement", side_effect_class |-> "read-only",
                     depends_on |-> 1]],
      [tool |-> "qualify_opportunity",
       metadata |-> [domain |-> "qualification", side_effect_class |-> "read-only"]],
      [tool |-> "qualify_opportunity",
       metadata |-> [domain |-> "qualification", side_effect_class |-> "execute",
                     depends_on |-> 1]],
      [tool |-> "expensive_tool",
       metadata |-> [domain |-> "test"]],
      [tool |-> "expensive_tool",
       metadata |-> [side_effect_class |-> "execute"]] }

\* estimated_cost in tenths: 0, 30.0, 50.0, 60.0
Costs == {0, 300, 500, 600}

\* cost_ceiling in tenths: 0 and 100.0
Ceilings == {0, 1000}

\* call_ceiling in tenths: the planner's 50 (intelligent_planner.py 183, 304)
\* and the budget test's 100.0 (test_production_demo.py 243)
CallCeilings == {500, 1000}

\* ToolBudget objects.  Planner and tests construct ToolBudget(call_ceiling=c)
\* and nothing else; the coordinator reads the attribute cost_ceiling of the
\* same object (demo_production.py 179).  The class gives no relation
\* between the two attributes: cost_ceiling is whatever the object holds.
ToolBudgets == [call_ceiling : CallCeilings, cost_ceiling : Ceilings]

\* The steps a plan is made of: the hand-built shape of the budget test
\* with every cost, the other shapes free of charge or at 50.0.
StepMenu ==
    { sc \in StepShapes \X Costs :
        sc[1] = [tool |-> "expensive_tool", metadata |-> [domain |-> "test"]]
            \/ sc[2] \in {0, 500} }

MkStep(i, shape, cost) ==
    [index |-> i, tool |-> shape.tool, input |-> PlaceholderInput,
     estimated_cost |-> cost, metadata |-> shape.metadata]

\* depends_on, when present, names a prior step
WellFormed(steps) ==
    \A i \in 1..Len(steps) :
        "depends_on" \in DOMAIN steps[i].metadata
            => steps[i].metadata["depends_on"] < i

PlanOf(p) == [i \in DOMAIN p |-> MkStep(i, p[i][1], p[i][2])]

Plans ==
    { pl \in { PlanOf(p) : p \in UNION { [1..n -> StepMenu] : n \in 0..MaxSteps } } :
        WellFormed(pl) }

-----------------------------------------------------------------------------
(* The external collaborators.                                             *)

\* What a tool returns.  A drafting call returns a message draft and a
\* subject; the text is not interpreted, only tagged with the step that
\* produced it.
ToolOutput(tool, i) ==
    IF tool = "draft_outbound_message"
    THEN [message_draft |-> <<"message_draft", i>>, subject |-> <<"subject", i>>]
    ELSE [result_of |-> i]

\* str(e) of the exceptions a tool may raise
ErrorMessages == {"tool failed"}

\* context.trace_id
TraceId == "trace-1"

\* await asyncio.sleep(2.0): the measured wait, in seconds
ApprovalDelay == 2

-----------------------------------------------------------------------------
(* execute_plan_manual: the pieces of the loop body.                       *)

\* mutant: the loop walks the plan from its last step
CurrentStepFromEnd == plan[Len(plan) + 1 - step_ptr]

CurrentStep == plan[step_ptr]

\* mutant: the check looks at what is used, not at what the step would add
OverBudgetIgnoringStep(total, cost, limit) == total > limit

\* if budget_used["total"] + step.estimated_cost > budget_limit
OverBudget(total, cost, limit) == total + cost > limit

BudgetExceededRecord(step, total, limit) ==
    [step_id |-> step.index,
     tool    |-> step.tool,
     domain  |-> DictGet(step.metadata, "domain", "unknown"),
     status  |-> "budget_exceeded",
     reason  |-> <<"Budget limit reached", total, limit>>]

\* mutant: break instead of continue
BreakAfterSkip(ptr, n) == n + 1

\* continue: the loop goes on with the step after the skipped one
NextAfterSkip(ptr, n) == ptr + 1

\* mutant: every step is gated
RequiresApprovalAlways(step) == TRUE

\* mutant: only "propose" is gated
RequiresApprovalProposeOnly(step) ==
    DictGet(step.metadata, "side_effect_class", "<None>") \in {"propose"}

\* requires_approval = step.metadata.get("side_effect_class") in ["propose", "execute"]
RequiresApproval(step) ==
    DictGet(step.metadata, "side_effect_class", "<None>") \in {"propose", "execute"}

\* approval_gate.create_request(...), as the call site fills it
CreateRequest(step) ==
    [request_id |-> <<"req", step.index>>,
     operation  |-> step.tool,
     trace_id   |-> TraceId,
     metadata   |-> [domain |-> DictGet(step.metadata, "domain", "<None>"),
                     step_index |-> step.index,
                     input |-> step.input,
                     side_effect_class |->
                         DictGet(step.metadata, "side_effect_class", "<None>")],
     risk_level |-> "medium",
     requester  |-> "production_demo"]

\* the status the simulated approver answers with
SimulatedStatus == "approved"

\* approval_response = {...}
ApprovalResponse(request) ==
    [request_id |-> request.request_id,
     status     |-> SimulatedStatus,
     approver   |-> "demo_user",
     reason     |-> "Demo auto-approval after review",
     wait_time  |-> ApprovalDelay]

ApprovalDeniedRecord(step, response) ==
    [step_id |-> step.index,
     tool    |-> step.tool,
     domain  |-> DictGet(step.metadata, "domain", "unknown"),
     status  |-> "approval_denied",
     reason  |-> DictGet(response, "reason", "Approval not granted")]

\* if approval_response["status"] != "approved": results.append(...); continue
\* otherwise the loop body goes on to the tool
ResponseOutcome(step, response, rs, ptr) ==
    IF response.status # "approved"
    THEN [results  |-> Append(rs, ApprovalDeniedRecord(step, response)),
          step_ptr |-> ptr + 1,
          pc       |-> "loop"]
    ELSE [results |-> rs, step_ptr |-> ptr, pc |-> "execute"]

\* elif step.tool == "assess_message_quality": if 2 in step_outputs: ...
Splices(step, outputs) ==
    step.tool = "assess_message_quality" /\ 2 \in DOMAIN outputs

\* mutant: without a draft the call gets a made-up message
InputAtCallMadeUp(step, outputs) ==
    IF Splices(step, outputs)
    THEN [step.input EXCEPT !.message = outputs[2].message_draft,
                            !.subject = outputs[2].subject]
    ELSE [step.input EXCEPT !.message = <<"message_draft", 0>>]

\* step.input["message"] = ...; step.input["subject"] = ...
InputAtCall(step, outputs) ==
    IF Splices(step, outputs)
    THEN [step.input EXCEPT !.message = outputs[2].message_draft,
                            !.subject = outputs[2].subject]
    ELSE step.input

\* step_outputs[2] = output, for the drafting tool only
OutputsAfter(step, outputs, output) ==
    IF step.tool = "draft_outbound_message"
    THEN DictSet(outputs, 2, output)
    ELSE outputs

\* mutant: an unknown tool yields an ordinary output
DispatchUnknownAsResult(step) == ToolOutput(step.tool, step.index)

\* the if / elif chain over step.tool; the else branch invokes nothing
Dispatch(step) ==
    IF step.tool \in KnownTools
    THEN ToolOutput(step.tool, step.index)
    ELSE [error |-> <<"Unknown tool", step.tool>>]

SuccessRecord(step, output, response) ==
    [step_id |-> step.index,
     tool    |-> step.tool,
     domain  |-> step.metadata["domain"],
     status  |-> "success",
     output  |-> output,
     approval_required  |-> RequiresApproval(step),
     approval_wait_time |-> IF response # << >> THEN response[1].wait_time ELSE 0]

\* mutant: a success is charged twice
ChargeTwice(used, step) ==
    LET domain == DictGet(step.metadata, "domain", "unknown")
    IN  [total     |-> used.total + 2 * step.estimated_cost,
         by_domain |-> DictSet(used.by_domain, domain,
                               DictGet(used.by_domain, domain, 0) + 2 * step.estimated_cost),
         by_tool   |-> DictSet(used.by_tool, step.tool,
                               DictGet(used.by_tool, step.tool, 0) + 2 * step.estimated_cost)]

\* mutant: only the total is charged
ChargeTotalOnly(used, step) == [used EXCEPT !.total = used.total + step.estimated_cost]

\* budget_used["total"] += ...; by_domain / by_tool likewise
Charge(used, step) ==
    LET domain == DictGet(step.metadata, "domain", "unknown")
    IN  [total     |-> used.total + step.estimated_cost,
         by_domain |-> DictSet(used.by_domain, domain,
                               DictGet(used.by_domain, domain, 0) + step.estimated_cost),
         by_tool   |-> DictSet(used.by_tool, step.tool,
                               DictGet(used.by_tool, step.tool, 0) + step.estimated_cost)]

\* except Exception as e: results.append({... "status": "error", "error": str(e)})
ErrorRecord(step, e) ==
    [step_id |-> step.index,
     tool    |-> step.tool,
     status  |-> "error",
     error   |-> e]

\* mutant: the except block charges the step
BudgetAfterErrorCharged(used, step) == Charge(used, step)

\* the except block leaves budget_used alone
BudgetAfterError(used, step) == used

\* mutant: a tool failure ends the loop
AbortAfterError(ptr, n) == n + 1

\* the loop goes on with the next step after the except block
NextAfterError(ptr, n) == ptr + 1

\* mutant: only errors count against success
AllSuccessIgnoringSkips(rs) ==
    \A i \in 1..Len(rs) : DictGet(rs[i], "status", "<None>") # "error"

\* all(r.get("status") == "success" for r in results)
AllSuccess(rs) == \A i \in 1..Len(rs) : DictGet(rs[i], "status", "<None>") = "success"

ResultDict ==
    [success             |-> AllSuccess(results),
     results             |-> results,
     trace_id            |-> TraceId,
     budget_utilization  |-> budget_used,
     budget_limit        |-> budget_limit,
     budget_exceeded     |-> budget_used.total > budget_limit,
     approval_requests   |-> approval_requests,
     total_approval_time |-> total_approval_time]

NotReturned == [pending |-> TRUE]

-----------------------------------------------------------------------------
(* State machine.                                                          *)

\* no RetryExecutor is involved in a plan run
RetryIdle ==
    /\ policy = << >>
    /\ attempt = 0
    /\ last_failure = << >>
    /\ retry_pc = "idle"
    /\ invocations = 0
    /\ delays = << >>
    /\ retry_exit = [kind |-> "idle"]

\* no exception is being classified
ClassifyIdle ==
    /\ exc = << >>
    /\ detected = << >>

\* no PartialResult is in use
PartialIdle ==
    /\ partial = << >>
    /\ partial_dict = << >>

\* no planner is in use
PlannerIdle ==
    /\ planner = << >>
    /\ calls = << >>
    /\ adapter_log = {}

\* no MetricsAggregator is in use
MetricsIdle ==
    /\ metrics = << >>
    /\ reporters = << >>
    /\ reader = << >>
    /\ running = "none"
    /\ record_log = << >>

Init ==
    /\ MetricsIdle
    /\ RetryIdle
    /\ ClassifyIdle
    /\ PartialIdle
    /\ PlannerIdle
    /\ plan \in Plans
    /\ built = plan
    /\ budget \in ToolBudgets
    /\ budget_limit = budget.cost_ceiling
    /\ pc = "loop"
    /\ step_ptr = 1
    /\ results = << >>
    /\ step_outputs = EmptyDict
    /\ budget_used = [total |-> 0, by_domain |-> EmptyDict, by_tool |-> EmptyDict]
    /\ approval_requests = << >>
    /\ total_approval_time = 0
    /\ pending_request = << >>
    /\ approval_response = << >>
    /\ tool_calls = << >>
    /\ raised = "none"
    /\ returned = NotReturned

AtStep == pc = "loop" /\ step_ptr <= Len(plan)

\* lines 196-208
SkipOverBudget ==
    /\ AtStep
    /\ OverBudget(budget_used.total, CurrentStep.estimated_cost, budget_limit)
    /\ results' = Append(results,
                         BudgetExceededRecord(CurrentStep, budget_used.total, budget_limit))
    /\ step_ptr' = NextAfterSkip(step_ptr, Len(plan))
    /\ UNCHANGED not_plan_vars
    /\ UNCHANGED <<plan, built, budget, budget_limit, pc, step_outputs, budget_used,
                   approval_requests, total_approval_time, pending_request,
                   approval_response, tool_calls, raised, returned>>

\* line 211: budget_used["total"] / budget_limit with budget_limit = 0
WarningCheckRaises ==
    /\ AtStep
    /\ ~OverBudget(budget_used.total, CurrentStep.estimated_cost, budget_limit)
    /\ budget_limit = 0
    /\ pc' = "raised"
    /\ raised' = "ZeroDivisionError"
    /\ UNCHANGED not_plan_vars
    /\ UNCHANGED <<plan, built, budget, budget_limit, step_ptr, results, step_outputs,
                   budget_used, approval_requests, total_approval_time,
                   pending_request, approval_response, tool_calls, returned>>

\* line 219: step.metadata['domain'] in the log line, outside the try
LogLineRaises ==
    /\ AtStep
    /\ ~OverBudget(budget_used.total, CurrentStep.estimated_cost, budget_limit)
    /\ budget_limit # 0
    /\ "domain" \notin DOMAIN CurrentStep.metadata
    /\ pc' = "raised"
    /\ raised' = "KeyError"
    /\ UNCHANGED not_plan_vars
    /\ UNCHANGED <<plan, built, budget, budget_limit, step_ptr, results, step_outputs,
                   budget_used, approval_requests, total_approval_time,
                   pending_request, approval_response, tool_calls, returned>>

\* lines 210-249: up to the suspension point, or straight to the tool
PassBudget ==
    /\ AtStep
    /\ ~OverBudget(budget_used.total, CurrentStep.estimated_cost, budget_limit)
    /\ budget_limit # 0
    /\ "domain" \in DOMAIN CurrentStep.metadata
    /\ approval_response' = << >>
    /\ IF RequiresApproval(CurrentStep)
       THEN /\ pending_request' = <<CreateRequest(CurrentStep)>>
            /\ pc' = "approval_wait"
       ELSE /\ pending_request' = << >>
            /\ pc' = "execute"
    /\ UNCHANGED not_plan_vars
    /\ UNCHANGED <<plan, built, budget, budget_limit, step_ptr, results, step_outputs,
                   budget_used, approval_requests, total_approval_time,
                   tool_calls, raised, returned>>

\* lines 249-276: the wait is over, the response is logged and acted on
ResolveApproval ==
    /\ pc = "approval_wait"
    /\ LET response == ApprovalResponse(pending_request[1])
           outcome  == ResponseOutcome(CurrentStep, response, results, step_ptr)
       IN  /\ approval_response' = <<response>>
           /\ approval_requests' = Append(approval_requests, response)
           /\ total_approval_time' = total_approval_time + response.wait_time
           /\ results' = outcome.results
           /\ step_ptr' = outcome.step_ptr
           /\ pc' = outcome.pc
    /\ pending_request' = << >>
    /\ UNCHANGED not_plan_vars
    /\ UNCHANGED <<plan, built, budget, budget_limit, step_outputs, budget_used,
                   tool_calls, raised, returned>>

\* the step with its input as the tool call sees it (the dict is the step's own)
StepAtCall == [CurrentStep EXCEPT !.input = InputAtCall(CurrentStep, step_outputs)]

CallRecord(step, outcome) ==
    [step_id |-> step.index, tool |-> step.tool, input |-> step.input,
     outcome |-> outcome]

\* lines 284-321: the tool returns (or no tool is known by that name)
ToolReturns ==
    /\ pc = "execute"
    /\ LET step   == StepAtCall
           output == Dispatch(step)
       IN  /\ plan' = [plan EXCEPT ![step_ptr] = step]
           /\ tool_calls' = IF step.tool \in KnownTools
                            THEN Append(tool_calls, CallRecord(step, "returned"))
                            ELSE tool_calls
           /\ step_outputs' = OutputsAfter(step, step_outputs, output)
           /\ IF "domain" \in DOMAIN step.metadata
              THEN /\ results' = Append(results,
                                        SuccessRecord(step, output, approval_response))
                   /\ budget_used' = Charge(budget_used, step)
              ELSE \* step.metadata["domain"] raises KeyError inside the try
                   /\ results' = Append(results, ErrorRecord(step, "'domain'"))
                   /\ budget_used' = BudgetAfterError(budget_used, step)
    /\ step_ptr' = step_ptr + 1
    /\ pc' = "loop"
    /\ UNCHANGED not_plan_vars
    /\ UNCHANGED <<built, budget, budget_limit, approval_requests, total_approval_time,
                   pending_request, approval_response, raised, returned>>

\* lines 284-298, 323-332: the tool raises
ToolRaises ==
    /\ pc = "execute"
    /\ CurrentStep.tool \in KnownTools
    /\ \E e \in ErrorMessages :
         LET step == StepAtCall
         IN  /\ plan' = [plan EXCEPT ![step_ptr] = step]
             /\ tool_calls' = Append(tool_calls, CallRecord(step, e))
             /\ results' = Append(results, ErrorRecord(step, e))
             /\ budget_used' = BudgetAfterError(budget_used, step)
    /\ step_ptr' = NextAfterError(step_ptr, Len(plan))
    /\ pc' = "loop"
    /\ UNCHANGED not_plan_vars
    /\ UNCHANGED <<built, budget, budget_limit, step_outputs, approval_requests,
                   total_approval_time, pending_request, approval_response,
                   raised, returned>>

\* lines 334-343
Return ==
    /\ pc = "loop"
    /\ step_ptr > Len(plan)
    /\ returned' = ResultDict
    /\ pc' = "done"
    /\ UNCHANGED not_plan_vars
    /\ UNCHANGED <<plan, built, budget, budget_limit, step_ptr, results, step_outputs,
                   budget_used, approval_requests, total_approval_time,
                   pending_request, approval_response, tool_calls, raised>>

Next ==
    \/ SkipOverBudget
    \/ WarningCheckRaises
    \/ LogLineRaises
    \/ PassBudget
    \/ ResolveApproval
    \/ ToolReturns
    \/ ToolRaises
    \/ Return

Spec == Init /\ [][Next]_vars

-----------------------------------------------------------------------------
(* Properties of a plan run.                                               *)

Statuses(rs) == [p \in 1..Len(rs) |-> rs[p].status]

\* estimated cost of the successes among the first n outcomes
RECURSIVE SuccessCost(_, _)
SuccessCost(rs, n) ==
    IF n = 0 THEN 0
    ELSE SuccessCost(rs, n - 1)
         + (IF rs[n].status = "success" THEN built[rs[n].step_id].estimated_cost ELSE 0)

Appended == Len(results') = Len(results) + 1

LastOf(seq) == seq[Len(seq)]

TestShape == [tool |-> "expensive_tool", metadata |-> [domain |-> "test"]]

IsTestPlan(costs) ==
    /\ Len(built) = Len(costs)
    /\ \A i \in 1..Len(costs) : built[i] = MkStep(i, TestShape, costs[i])

Gated(step) ==
    /\ "side_effect_class" \in DOMAIN step.metadata
    /\ step.metadata["side_effect_class"] \in {"propose", "execute"}

ApprovedFor(i) ==
    \E a \in 1..Len(approval_requests) :
        /\ approval_requests[a].request_id = <<"req", i>>
        /\ approval_requests[a].status = "approved"

Invoked(i) == \E c \in 1..Len(tool_calls) : tool_calls[c].step_id = i

\* C1: the budget figures change only in a transition that records a step
\* as success, and then total, by_domain[domain] and by_tool[tool] each grow
\* by exactly that step's estimated_cost and nothing else changes; recording
\* error, budget_exceeded or approval_denied leaves budget_used as it was.
C1_BudgetChargedOnlyOnSuccess ==
    [][ IF Appended /\ LastOf(results').status = "success"
        THEN LET step == plan[step_ptr]
                 c    == step.estimated_cost
                 d    == step.metadata["domain"]
                 t    == step.tool
             IN  /\ LastOf(results').step_id = step.index
                 /\ budget_used'.total = budget_used.total + c
                 /\ DOMAIN budget_used'.by_domain = DOMAIN budget_used.by_domain \cup {d}
                 /\ DOMAIN budget_used'.by_tool = DOMAIN budget_used.by_tool \cup {t}
                 /\ \A k \in DOMAIN budget_used'.by_domain :
                       budget_used'.by_domain[k] =
                           DictGet(budget_used.by_domain, k, 0) + (IF k = d THEN c ELSE 0)
                 /\ \A k \in DOMAIN budget_used'.by_tool :
                       budget_used'.by_tool[k] =
                           DictGet(budget_used.by_tool, k, 0) + (IF k = t THEN c ELSE 0)
        ELSE budget_used' = budget_used ]_vars

C1_Witness ==
    /\ \E p \in 1..Len(results) : results[p].status = "success"
    /\ \E p \in 1..Len(results) : results[p].status = "error"
    /\ \E p \in 1..Len(results) : results[p].status = "budget_exceeded"
    /\ budget_used.total > 0

\* C2: a step reached with total + estimated_cost > ceiling is recorded as
\* budget_exceeded and its tool is never invoked; no step past the check is
\* over the ceiling; costs 60 and 50 against 100 end with step 1 executed,
\* 60 used, and step 2 budget_exceeded.
C2_OverBudgetStepSkipped ==
    /\ \A p \in 1..Len(results) :
          SuccessCost(results, p - 1) + built[results[p].step_id].estimated_cost > budget_limit
              => /\ results[p].status = "budget_exceeded"
                 /\ ~Invoked(results[p].step_id)
    /\ pc \in {"approval_wait", "execute"}
          => SuccessCost(results, Len(results)) + built[step_ptr].estimated_cost <= budget_limit
    /\ (IsTestPlan(<<600, 500>>) /\ budget_limit = 1000 /\ pc = "done")
          => /\ Statuses(results) = <<"success", "budget_exceeded">>
             /\ returned.budget_utilization.total = 600

C2_Witness ==
    /\ IsTestPlan(<<600, 500>>) /\ budget_limit = 1000 /\ pc = "done"
    /\ Statuses(results) = <<"success", "budget_exceeded">>

\* C3: with non-negative step costs the used budget never exceeds the
\* ceiling, and the budget_exceeded flag of the returned result is false,
\* also when steps were skipped as budget_exceeded.
C3_BudgetWithinCeiling ==
    /\ budget_used.total <= budget_limit
    /\ pc = "done" => returned.budget_exceeded = FALSE

C3_Witness ==
    /\ pc = "done"
    /\ \E p \in 1..Len(results) : results[p].status = "budget_exceeded"
    /\ budget_used.total > 0
    /\ returned.budget_exceeded = FALSE

\* C4: the tool of a propose / execute step is invoked, and the step is
\* recorded as success, only with an approved response for that step in the
\* approval log; a response with another status (denied, timeout) is turned
\* into an approval_denied outcome without a tool call or a charge, and the
\* loop goes on.
C4_GatedToolNeedsApproval ==
    /\ \A c \in 1..Len(tool_calls) :
          Gated(built[tool_calls[c].step_id]) => ApprovedFor(tool_calls[c].step_id)
    /\ \A p \in 1..Len(results) :
          (results[p].status = "success" /\ Gated(built[results[p].step_id]))
              => ApprovedFor(results[p].step_id)
    /\ (pc = "execute" /\ Gated(built[step_ptr])) => ApprovedFor(step_ptr)
    /\ pc = "approval_wait" =>
          \A status \in {"denied", "timeout"} :
              LET response == [ApprovalResponse(pending_request[1]) EXCEPT !.status = status]
                  outcome  == ResponseOutcome(CurrentStep, response, results, step_ptr)
              IN  /\ outcome.pc = "loop"
                  /\ outcome.step_ptr = step_ptr + 1
                  /\ Len(outcome.results) = Len(results) + 1
                  /\ LastOf(outcome.results).status = "approval_denied"
                  /\ LastOf(outcome.results).step_id = CurrentStep.index
    /\ \A a \in 1..Len(approval_requests) :
          approval_requests[a].status # "approved"
              => \E p \in 1..Len(results) :
                    /\ results[p].status = "approval_denied"
                    /\ approval_requests[a].request_id = <<"req", results[p].step_id>>
                    /\ ~Invoked(results[p].step_id)

C4_Witness ==
    \E c \in 1..Len(tool_calls) :
        /\ built[tool_calls[c].step_id].metadata["side_effect_class"] = "execute"
        /\ ApprovedFor(tool_calls[c].step_id)

\* C5: a tool's exception is recorded as that step's outcome, status error
\* with the exception's message; it never leaves the run, and every step of
\* the plan still has its outcome when the run returns.
C5_ToolFailureContained ==
    /\ \A c \in 1..Len(tool_calls) :
          tool_calls[c].outcome # "returned"
              => \E p \in 1..Len(results) :
                    /\ results[p].step_id = tool_calls[c].step_id
                    /\ results[p].status = "error"
                    /\ results[p].error = tool_calls[c].outcome
    /\ raised \notin ErrorMessages
    /\ pc = "done" => Len(results) = Len(plan)

C5_Witness ==
    /\ pc = "done"
    /\ Len(results) = MaxSteps
    /\ results[1].status = "error"
    /\ results[2].status = "success"

\* C6: execute_plan_manual never raises and, once finished, has returned a
\* result with all eight fields.
C6_NeverRaises ==
    /\ pc # "raised"
    /\ pc = "done" =>
          DOMAIN returned = {"success", "results", "trace_id", "budget_utilization",
                             "budget_limit", "budget_exceeded", "approval_requests",
                             "total_approval_time"}

\* C7: the returned success flag is true exactly when every recorded outcome
\* has status success; the outcomes, the budget breakdown and the approval
\* log are in the result either way.
C7_SuccessIffAllSucceeded ==
    pc = "done" =>
        /\ returned.success = (\A p \in 1..Len(results) : results[p].status = "success")
        /\ returned.results = results
        /\ Len(returned.results) = Len(plan)
        /\ returned.budget_utilization = budget_used
        /\ DOMAIN returned.budget_utilization = {"total", "by_domain", "by_tool"}
        /\ returned.approval_requests = approval_requests

C7_Witness ==
    /\ pc = "done"
    /\ returned.success = FALSE
    /\ Len(results) = MaxSteps
    /\ Cardinality({p \in 1..Len(results) : results[p].status # "success"}) = 1
    /\ \E p \in 1..Len(results) : results[p].status = "budget_exceeded"

\* C8: a budget_exceeded step does not end the run: every step is checked
\* against the budget used so far, and is skipped exactly when it does not
\* fit; costs 60, 50, 30 against 100 run step 3 after step 2 was skipped.
C8_RunContinuesAfterSkip ==
    /\ pc = "done" =>
          /\ Len(results) = Len(plan)
          /\ \A p \in 1..Len(results) :
                /\ results[p].step_id = p
                /\ results[p].status = "budget_exceeded"
                      <=> SuccessCost(results, p - 1) + built[p].estimated_cost > budget_limit
    /\ (IsTestPlan(<<600, 500, 300>>) /\ budget_limit = 1000 /\ pc = "done")
          => /\ Statuses(results) = <<"success", "budget_exceeded", "success">>
             /\ budget_used.total = 900

C8_Witness ==
    /\ IsTestPlan(<<600, 500, 300>>) /\ budget_limit = 1000 /\ pc = "done"
    /\ Statuses(results) = <<"success", "budget_exceeded", "success">>

\* C9: a tool call of a step whose depends_on names an earlier drafting step
\* that succeeded receives that step's recorded message draft and subject as
\* its message and subject.
C9_InputFollowsDependsOn ==
    \A c \in 1..Len(tool_calls) :
        LET step == built[tool_calls[c].step_id]
        IN  "depends_on" \in DOMAIN step.metadata =>
                \A p \in 1..Len(results) :
                    ( /\ results[p].step_id = step.metadata["depends_on"]
                      /\ results[p].status = "success"
                      /\ results[p].tool = "draft_outbound_message" )
                    => /\ tool_calls[c].input.message = results[p].output.message_draft
                       /\ tool_calls[c].input.subject = results[p].output.subject

\* C10: running a plan leaves it as it was built: every step's input, cost
\* and metadata keep the values the planner gave them.
C10_PlanUnchanged ==
    \A i \in 1..Len(plan) :
        /\ plan[i].input = built[i].input
        /\ plan[i].estimated_cost = built[i].estimated_cost
        /\ plan[i].metadata = built[i].metadata

\* C11: the ceiling the budget check enforces is the call_ceiling of the
\* plan's budget: a step is recorded as budget_exceeded exactly when the cost
\* of the successes before it plus its own estimated cost exceeds
\* plan.budget.call_ceiling.
C11_CeilingIsCallCeiling ==
    \A p \in 1..Len(results) :
        results[p].status = "budget_exceeded"
            <=> SuccessCost(results, p - 1) + built[p].estimated_cost
                    > budget.call_ceiling

\* outcomes that are past the budget check
PassedBudget(p) == results[p].status # "budget_exceeded"

RequestedFor(i) ==
    \E a \in 1..Len(approval_requests) : approval_requests[a].request_id = <<"req", i>>

\* C35: steps are processed in plan order, one at a time: the p-th outcome
\* is that of step p, a tool is invoked for step j only when exactly the
\* outcomes of steps 1..j-1 are recorded and that transition records step
\* j's outcome, and a run that returns has one outcome per step.
C35_StrictPlanOrder ==
    /\ [](/\ \A p \in 1..Len(results) : results[p].step_id = p
          /\ Len(results) <= Len(plan)
          /\ \A c \in 1..Len(tool_calls) :
                /\ tool_calls[c].step_id <= Len(results)
                /\ \A d \in 1..Len(tool_calls) :
                      c < d => tool_calls[c].step_id < tool_calls[d].step_id
          /\ pc = "done" => Len(results) = Len(plan))
    /\ [][ /\ Len(results') \in {Len(results), Len(results) + 1}
           /\ tool_calls' # tool_calls
                 => /\ Len(tool_calls') = Len(tool_calls) + 1
                    /\ LastOf(tool_calls').step_id = Len(results) + 1
                    /\ Appended
                    /\ LastOf(results').step_id = Len(results) + 1 ]_vars

C35_Witness ==
    /\ pc = "done"
    /\ Len(results) = MaxSteps
    /\ Len(tool_calls) = MaxSteps
    /\ results[2].status = "error"

\* C36: an approval request exists for a step exactly when the step is
\* propose / execute and passed the budget check; a request is only created
\* after the budget check, and the approval log holds one entry per request.
C36_ApprovalIffGatedAndWithinBudget ==
    /\ \A p \in 1..Len(results) :
          RequestedFor(p) <=> (Gated(built[p]) /\ PassedBudget(p))
    /\ \A a \in 1..Len(approval_requests), b \in 1..Len(approval_requests) :
          approval_requests[a].request_id = approval_requests[b].request_id => a = b
    /\ \A a \in 1..Len(approval_requests) :
          \E i \in 1..Len(plan) :
              /\ approval_requests[a].request_id = <<"req", i>>
              /\ Gated(built[i])
              /\ i <= Len(results) \/ (i = step_ptr /\ pc = "execute")
    /\ pending_request # << >>
          => /\ pc = "approval_wait"
             /\ Gated(built[step_ptr])
             /\ pending_request[1].request_id = <<"req", step_ptr>>
             /\ ~OverBudget(budget_used.total, CurrentStep.estimated_cost, budget_limit)
             /\ ~RequestedFor(step_ptr)
    /\ pc = "execute" => (RequestedFor(step_ptr) <=> Gated(built[step_ptr]))

C36_Witness ==
    /\ pc = "done"
    /\ Len(approval_requests) = 1
    /\ \E p \in 1..Len(results) :
          /\ Gated(built[p]) /\ results[p].status = "budget_exceeded"
    /\ \E p \in 1..Len(results) :
          /\ Gated(built[p]) /\ results[p].status = "success"
    /\ \E p \in 1..Len(results) :
          /\ ~Gated(built[p]) /\ results[p].status = "success"

\* C37: a step whose tool is none of the four known tools is never recorded
\* as an error: unless skipped for budget it is recorded as success with an
\* output that holds an error entry, no tool is invoked for it, its cost is
\* charged, and the run's success flag is true when all outcomes are success.
C37_UnknownToolRecordedAsSuccess ==
    /\ \A p \in 1..Len(results) :
          built[p].tool \notin KnownTools
          => /\ results[p].status \in {"success", "budget_exceeded"}
             /\ ~Invoked(p)
             /\ results[p].status = "success"
                   => /\ DOMAIN results[p].output = {"error"}
                      /\ built[p].tool \in DOMAIN budget_used.by_tool
                      /\ budget_used.by_tool[built[p].tool] >= built[p].estimated_cost
                      /\ budget_used.total >= built[p].estimated_cost
    /\ (pc = "done" /\ \A p \in 1..Len(results) : results[p].status = "success")
          => returned.success = TRUE

C37_Witness ==
    /\ pc = "done"
    /\ returned.success = TRUE
    /\ \E p \in 1..Len(results) :
          /\ built[p].tool \notin KnownTools
          /\ built[p].estimated_cost = 600
          /\ budget_used.total >= 600

DraftedBefore(p) ==
    \E q \in 1..(p - 1) :
        results[q].tool = "draft_outbound_message" /\ results[q].status = "success"

CallOf(i) == CHOOSE c \in 1..Len(tool_calls) : tool_calls[c].step_id = i

\* C38: an assess_message_quality step that passed the budget check is
\* invoked whether or not a drafting step produced an output before it; when
\* none did, the call receives the empty message and subject the plan was
\* built with.
C38_DependentStepStillInvoked ==
    \A p \in 1..Len(results) :
        (built[p].tool = "assess_message_quality" /\ PassedBudget(p))
        => /\ Invoked(p)
           /\ results[p].status \in {"success", "error"}
           /\ ~DraftedBefore(p)
                 => /\ tool_calls[CallOf(p)].input.message = EmptyText
                    /\ tool_calls[CallOf(p)].input.subject = EmptyText

C38_Witness ==
    /\ Len(results) = 2
    /\ built[1].tool = "draft_outbound_message"
    /\ results[1].status = "error"
    /\ built[2].tool = "assess_message_quality"
    /\ built[2].metadata = [domain |-> "engagement", side_effect_class |-> "read-only",
                            depends_on |-> 1]
    /\ results[2].status = "success"
    /\ tool_calls[CallOf(2)].input = PlaceholderInput

\* C39: at every point of a run budget_used.total equals the sum of the
\* by_domain values, the sum of the by_tool values, and the sum of the
\* estimated costs of the steps recorded as success so far.
C39_BreakdownsMatchTotal ==
    /\ budget_used.total = DictSum(budget_used.by_domain)
    /\ budget_used.total = DictSum(budget_used.by_tool)
    /\ budget_used.total = SuccessCost(results, Len(results))

C39_Witness ==
    /\ Cardinality(DOMAIN budget_used.by_domain) = 2
    /\ Cardinality(DOMAIN budget_used.by_tool) = 2
    /\ budget_used.total = 1000
    /\ \E p \in 1..Len(results) : results[p].status = "error"

-----------------------------------------------------------------------------
(* Part 2.  Text: Python str, with the operations the classifier uses.     *)

UpperToLower ==
    [A |-> "a", B |-> "b", C |-> "c", D |-> "d", E |-> "e", F |-> "f",
     G |-> "g", H |-> "h", I |-> "i", J |-> "j", K |-> "k", L |-> "l",
     M |-> "m", N |-> "n", O |-> "o", P |-> "p", Q |-> "q", R |-> "r",
     S |-> "s", T |-> "t", U |-> "u", V |-> "v", W |-> "w", X |-> "x",
     Y |-> "y", Z |-> "z"]

\* str.lower()
RECURSIVE Lower(_)
Lower(s) ==
    IF Len(s) = 0 THEN s
    ELSE LET c == SubSeq(s, 1, 1)
         IN  (IF c \in DOMAIN UpperToLower THEN UpperToLower[c] ELSE c)
                 \o Lower(SubSeq(s, 2, Len(s)))

\* k in s
Contains(s, k) ==
    \E i \in 1..(Len(s) - Len(k) + 1) : SubSeq(s, i, i + Len(k) - 1) = k

\* s.startswith(k)
StartsWith(s, k) == Len(s) >= Len(k) /\ SubSeq(s, 1, Len(k)) = k

-----------------------------------------------------------------------------
(* The failure taxonomy: FailureMode and its properties.                   *)

\* the values of the enum
FailureModes ==
    {"agent_validation", "agent_timeout", "agent_logic", "agent_contract",
     "agent_state",
     "system_network", "system_timeout", "system_crash", "system_oom",
     "system_disk",
     "resource_tool", "resource_api", "resource_memory", "resource_quota",
     "resource_circuit",
     "policy_security", "policy_budget", "policy_allowlist",
     "policy_rate_limit",
     "user_invalid_input", "user_cancelled", "user_permission",
     "partial_tool_failures", "partial_step_failures", "partial_timeout"}

Category(mode) ==
    IF StartsWith(mode, "agent_") THEN "agent"
    ELSE IF StartsWith(mode, "system_") THEN "system"
    ELSE IF StartsWith(mode, "resource_") THEN "resource"
    ELSE IF StartsWith(mode, "policy_") THEN "policy"
    ELSE IF StartsWith(mode, "user_") THEN "user"
    ELSE IF StartsWith(mode, "partial_") THEN "agent"
    ELSE "system"

Retryable(mode) ==
    mode \in {"system_network", "system_timeout", "resource_tool",
              "resource_api", "resource_circuit", "policy_rate_limit",
              "agent_timeout", "partial_timeout"}

Terminal(mode) ==
    mode \in {"policy_security", "policy_budget", "policy_allowlist",
              "system_crash", "system_oom", "user_cancelled",
              "agent_contract"}

Severity(mode) ==
    IF Terminal(mode) THEN "critical"
    ELSE IF Category(mode) = "system" THEN "high"
    ELSE IF Category(mode) \in {"resource", "policy"} THEN "medium"
    ELSE "low"

-----------------------------------------------------------------------------
(* Exceptions an operation can raise, and their classification.            *)

ExceptionTypes ==
    {"Exception", "TimeoutError", "NetworkError", "ConnectionError",
     "MemoryError", "ValueError"}

SimpleMessages ==
    {"", "request timeout", "timed out", "Connection refused",
     "out of memory", "OOM killed", "boom", "Permission denied",
     "invalid input", "Rate limit exceeded", "quota exceeded",
     "circuit open", "service unavailable", "tool not found",
     "division by zero"}

TimeoutSpellings == {"timeout", "Timeout", "TIMEOUT", "TimeOut"}

OtherKeywords ==
    {"network", "connection", "memory", "oom", "permission", "forbidden",
     "validation", "invalid", "rate limit", "quota", "circuit",
     "unavailable", "not found"}

\* messages that name a timeout together with one other keyword
MixedMessages ==
    UNION { {t \o " " \o k, k \o " " \o t} :
            t \in TimeoutSpellings, k \in OtherKeywords }

\* an exception: type(exc).__name__ and str(exc)
Exceptions ==
    [type : ExceptionTypes, msg : SimpleMessages]
        \cup [type : {"Exception"}, msg : MixedMessages]

\* the branch order with the timeout test moved behind the network and
\* memory tests
DetectTimeoutLate(e) ==
    LET exc_type == Lower(e.type)
        exc_msg  == Lower(e.msg)
    IN  IF Contains(exc_type, "network") \/ Contains(exc_msg, "connection")
        THEN "system_network"
        ELSE IF Contains(exc_msg, "memory") \/ Contains(exc_msg, "oom")
        THEN "system_oom"
        ELSE IF Contains(exc_type, "timeout") \/ Contains(exc_msg, "timeout")
        THEN "system_timeout"
        ELSE "agent_logic"

\* every keyword looked for in the type name and in the message alike
DetectInBothFields(e) ==
    LET text == Lower(e.type) \o " " \o Lower(e.msg)
    IN  IF Contains(text, "timeout") THEN "system_timeout"
        ELSE IF Contains(text, "network") \/ Contains(text, "connection")
        THEN "system_network"
        ELSE IF Contains(text, "memory") \/ Contains(text, "oom")
        THEN "system_oom"
        ELSE IF Contains(text, "permission") \/ Contains(text, "forbidden")
        THEN "user_permission"
        ELSE IF Contains(text, "validation") \/ Contains(text, "invalid")
        THEN "agent_validation"
        ELSE IF Contains(text, "rate limit") \/ Contains(text, "quota")
        THEN "policy_rate_limit"
        ELSE IF Contains(text, "circuit") THEN "resource_circuit"
        ELSE IF Contains(text, "unavailable") \/ Contains(text, "not found")
        THEN "resource_tool"
        ELSE "agent_logic"

\* FailureContext._detect_failure_mode
DetectFailureMode(e) ==
    LET exc_type == Lower(e.type)
        exc_msg  == Lower(e.msg)
    IN  IF Contains(exc_type, "timeout") \/ Contains(exc_msg, "timeout")
        THEN "system_timeout"
        ELSE IF Contains(exc_type, "network") \/ Contains(exc_msg, "connection")
        THEN "system_network"
        ELSE IF Contains(exc_msg, "memory") \/ Contains(exc_msg, "oom")
        THEN "system_oom"
        ELSE IF Contains(exc_msg, "permission") \/ Contains(exc_msg, "forbidden")
        THEN "user_permission"
        ELSE IF Contains(exc_msg, "validation") \/ Contains(exc_msg, "invalid")
        THEN "agent_validation"
        ELSE IF Contains(exc_msg, "rate limit") \/ Contains(exc_msg, "quota")
        THEN "policy_rate_limit"
        ELSE IF Contains(exc_msg, "circuit")
        THEN "resource_circuit"
        ELSE IF Contains(exc_msg, "unavailable") \/ Contains(exc_msg, "not found")
        THEN "resource_tool"
        ELSE "agent_logic"

\* the classification of every exception of the model, computed once
ModeOf == [e \in Exceptions |-> DetectFailureMode(e)]

OperationName == "operation"

\* FailureContext.from_exception(exc, stage, context) followed by the
\* executor's failure.retry_count = attempt and
\* failure.metadata["operation_name"] = operation_name
FailureOf(e, n) ==
    [mode           |-> ModeOf[e],
     message        |-> e.msg,
     cause          |-> e,
     partial_result |-> "None",
     retry_count    |-> n,
     metadata       |-> [exception_type |-> e.type,
                         operation_name |-> OperationName]]

\* {**a, **b}
DictMerge(a, b) ==
    [k \in (DOMAIN a) \cup (DOMAIN b) |-> IF k \in DOMAIN b THEN b[k] ELSE a[k]]

\* FailureContext.to_orchestration_error
ToOrchestrationError(failure) ==
    [message     |-> failure.message,
     cause       |-> failure.cause,
     recoverable |-> Retryable(failure.mode),
     metadata    |->
        DictMerge([failure_mode   |-> failure.mode,
                   category       |-> Category(failure.mode),
                   severity       |-> Severity(failure.mode),
                   retry_count    |-> failure.retry_count,
                   partial_result |-> failure.partial_result],
                  failure.metadata)]

\* the error raised when the loop ends without any failure recorded
RetryLogicFailure ==
    [message     |-> "Retry logic failure for " \o OperationName,
     cause       |-> "None",
     recoverable |-> FALSE,
     metadata    |-> EmptyDict]

-----------------------------------------------------------------------------
(* Retry policies.                                                         *)

\* the largest max_attempts a policy of the model is built with
MaxAttempts == 2

\* the largest attempt number get_delay is evaluated at in the properties
MaxDelayAttempt == 7

Min(a, b) == IF a <= b THEN a ELSE b

Max(a, b) == IF a >= b THEN a ELSE b

\* b ** n
RECURSIVE Pow(_, _)
Pow(b, n) == IF n = 0 THEN 1 ELSE b * Pow(b, n - 1)

\* retryable_modes: Optional[List[FailureMode]]; << >> is None, <<l>> the
\* list l
AllowLists ==
    { << >>, << << >> >>, << <<"system_timeout">> >>,
      << <<"system_oom", "agent_logic">> >> }

\* max_attempts is an int the dataclasses do not validate
AttemptLimits == (-1)..MaxAttempts

\* base_delay 1.0 s, multiplier 2.0 (the defaults); max_delay 2.0 s and the
\* default 60.0 s; jitter 0, the default 0.1, and 0.5
ExponentialBackoffPolicies ==
    [kind : {"exponential"}, base_delay : {10}, max_delay : {20, 600},
     multiplier : {2}, jitter : {0, 10, 50}, max_attempts : AttemptLimits,
     retryable_modes : AllowLists]

\* delay 0 and the default 2.0 s
LinearBackoffPolicies ==
    [kind : {"linear"}, delay : {0, 20}, max_attempts : AttemptLimits,
     retryable_modes : AllowLists]

NoRetryPolicy == [kind |-> "none"]

Policies ==
    ExponentialBackoffPolicies \cup LinearBackoffPolicies \cup {NoRetryPolicy}

\* mode in self.retryable_modes, for a list that is not None
InList(mode, list) == \E i \in DOMAIN list : list[i] = mode

BackoffShouldRetryOffByOne(p, failure) ==
    IF failure.retry_count > p.max_attempts THEN FALSE
    ELSE IF p.retryable_modes # << >>
    THEN InList(failure.mode, p.retryable_modes[1])
    ELSE Retryable(failure.mode)

\* ExponentialBackoffPolicy.should_retry, LinearBackoffPolicy.should_retry
BackoffShouldRetry(p, failure) ==
    IF failure.retry_count >= p.max_attempts THEN FALSE
    ELSE IF p.retryable_modes # << >>
    THEN InList(failure.mode, p.retryable_modes[1])
    ELSE Retryable(failure.mode)

NoRetryShouldRetryIfRetryable(failure) == Retryable(failure.mode)

\* NoRetryPolicy.should_retry
NoRetryShouldRetry(failure) == FALSE

\* policy.should_retry(failure)
ShouldRetry(p, failure) ==
    IF p.kind = "none" THEN NoRetryShouldRetry(failure)
    ELSE BackoffShouldRetry(p, failure)

\* policy.get_max_attempts()
GetMaxAttempts(p) == IF p.kind = "none" THEN 0 ELSE p.max_attempts

\* min(self.base_delay * (self.multiplier ** attempt), self.max_delay)
CappedDelay(p, n) == Min(p.base_delay * Pow(p.multiplier, n), p.max_delay)

JitterAmountFivefold(p, n) == (CappedDelay(p, n) * p.jitter * 5) \div 100

\* jitter_amount = delay * self.jitter
JitterAmount(p, n) == (CappedDelay(p, n) * p.jitter) \div 100

\* random.uniform(a, b): the two ends and the middle of the interval
Uniform(a, b) == {a, (a + b) \div 2, b}

\* ExponentialBackoffPolicy.get_delay(attempt), for one draw of the jitter
ExponentialGetDelay(p, n, draw) ==
    Max(0, IF p.jitter > 0 THEN CappedDelay(p, n) + draw
           ELSE CappedDelay(p, n))

\* every value policy.get_delay(attempt) can return
GetDelays(p, n) ==
    IF p.kind = "exponential"
    THEN { ExponentialGetDelay(p, n, draw) :
             draw \in Uniform(-JitterAmount(p, n), JitterAmount(p, n)) }
    ELSE IF p.kind = "linear" THEN {p.delay}
    ELSE {0}

-----------------------------------------------------------------------------
(* RetryExecutor.execute_with_retry.                                       *)

\* no plan is run while an operation is retried
PlanIdle ==
    /\ plan = << >>
    /\ built = << >>
    /\ budget = << >>
    /\ budget_limit = 0
    /\ pc = "idle"
    /\ step_ptr = 1
    /\ results = << >>
    /\ step_outputs = EmptyDict
    /\ budget_used = [total |-> 0, by_domain |-> EmptyDict, by_tool |-> EmptyDict]
    /\ approval_requests = << >>
    /\ total_approval_time = 0
    /\ pending_request = << >>
    /\ approval_response = << >>
    /\ tool_calls = << >>
    /\ raised = "none"
    /\ returned = NotReturned

\* the exceptions the retried operation raises: one or two of each class
\* the classifier can tell apart
OperationErrors ==
    { [type |-> "TimeoutError",    msg |-> ""],
      [type |-> "Exception",       msg |-> "request timeout"],
      [type |-> "Exception",       msg |-> "connection TIMEOUT"],
      [type |-> "ConnectionError", msg |-> "Connection refused"],
      [type |-> "MemoryError",     msg |-> "out of memory"],
      [type |-> "Exception",       msg |-> "boom"],
      [type |-> "Exception",       msg |-> "Permission denied"],
      [type |-> "ValueError",      msg |-> "invalid input"],
      [type |-> "Exception",       msg |-> "Rate limit exceeded"],
      [type |-> "Exception",       msg |-> "circuit open"],
      [type |-> "Exception",       msg |-> "service unavailable"],
      [type |-> "Exception",       msg |-> "division by zero"] }

\* what operation() returns when it does not raise
OperationValue == "result"

\* lines 521-522
RetryInit ==
    /\ MetricsIdle
    /\ PlannerIdle
    /\ PlanIdle
    /\ ClassifyIdle
    /\ PartialIdle
    /\ policy \in Policies
    /\ attempt = 0
    /\ last_failure = << >>
    /\ retry_pc = "loop"
    /\ invocations = 0
    /\ delays = << >>
    /\ retry_exit = [kind |-> "running"]

\* lines 575-584: what is raised once the loop is over
AfterLoop(lf) ==
    IF lf # << >> THEN ToOrchestrationError(lf[1]) ELSE RetryLogicFailure

\* line 524: while attempt <= self.policy.get_max_attempts()
LoopTest ==
    /\ retry_pc = "loop"
    /\ IF attempt <= GetMaxAttempts(policy)
       THEN /\ retry_pc' = "call"
            /\ UNCHANGED retry_exit
       ELSE /\ retry_pc' = "raised"
            /\ retry_exit' = [kind |-> "raised", error |-> AfterLoop(last_failure)]
    /\ UNCHANGED <<policy, attempt, last_failure, invocations, delays>>
    /\ UNCHANGED not_retry_vars

\* lines 525-540: the operation returns
OperationReturns ==
    /\ retry_pc = "call"
    /\ invocations' = invocations + 1
    /\ retry_pc' = "returned"
    /\ retry_exit' = [kind |-> "returned", value |-> OperationValue]
    /\ UNCHANGED <<policy, attempt, last_failure, delays>>
    /\ UNCHANGED not_retry_vars

\* after a failure the policy agreed to retry: lines 570-574 up to the sleep
AfterDelaySameAttempt(n, delay) ==
    IF delay > 0 THEN [retry_pc |-> "sleep", attempt |-> n]
    ELSE [retry_pc |-> "loop", attempt |-> n]

AfterDelay(n, delay) ==
    IF delay > 0 THEN [retry_pc |-> "sleep", attempt |-> n]
    ELSE [retry_pc |-> "loop", attempt |-> n + 1]

PropagatesPolicyOnly(p, failure) == ~ShouldRetry(p, failure)

PropagatesAlways(p, failure) == TRUE

\* lines 554-568: the failure is raised rather than retried
Propagates(p, failure) == Terminal(failure.mode) \/ ~ShouldRetry(p, failure)

\* lines 525-574: the operation raises
OperationRaises ==
    /\ retry_pc = "call"
    /\ invocations' = invocations + 1
    /\ \E e \in OperationErrors :
         LET failure == FailureOf(e, attempt)
         IN  /\ last_failure' = <<failure>>
             /\ IF Propagates(policy, failure)
                THEN /\ retry_pc' = "raised"
                     /\ retry_exit' = [kind  |-> "raised",
                                       error |-> ToOrchestrationError(failure)]
                     /\ UNCHANGED <<attempt, delays>>
                ELSE \E delay \in GetDelays(policy, attempt) :
                       /\ delays' = Append(delays, delay)
                       /\ retry_pc' = AfterDelay(attempt, delay).retry_pc
                       /\ attempt' = AfterDelay(attempt, delay).attempt
                       /\ UNCHANGED retry_exit
    /\ UNCHANGED policy
    /\ UNCHANGED not_retry_vars

\* lines 573-574: the sleep is over
SleepOver ==
    /\ retry_pc = "sleep"
    /\ attempt' = attempt + 1
    /\ retry_pc' = "loop"
    /\ UNCHANGED <<policy, last_failure, invocations, delays, retry_exit>>
    /\ UNCHANGED not_retry_vars

RetryNext ==
    \/ LoopTest
    \/ OperationReturns
    \/ OperationRaises
    \/ SleepOver

\* the event loop resumes the coroutine whenever it can run
RetrySpec == RetryInit /\ [][RetryNext]_vars /\ WF_vars(RetryNext)

-----------------------------------------------------------------------------
(* FailureContext.from_exception on its own: one exception is classified.  *)

ClassifyInit ==
    /\ MetricsIdle
    /\ PlannerIdle
    /\ PlanIdle
    /\ RetryIdle
    /\ PartialIdle
    /\ exc \in Exceptions
    /\ detected = << >>

\* from_exception(exc, stage, context) with mode=None
FromException ==
    /\ detected = << >>
    /\ detected' = <<FailureOf(exc, 0)>>
    /\ UNCHANGED exc
    /\ UNCHANGED not_classify_vars

ClassifyNext == FromException

ClassifySpec == ClassifyInit /\ [][ClassifyNext]_vars

-----------------------------------------------------------------------------
(* Properties of the retry executor.                                       *)

\* this step is an invocation of the operation that raised
OperationFailed == invocations' = invocations + 1 /\ retry_pc' # "returned"

Exited == retry_pc \in {"returned", "raised"}

\* C12: when the operation fails with a failure whose mode is terminal, the
\* executor raises the failure's OrchestrationError in that same step, without
\* asking for a delay, and the operation is never invoked after an exit;
\* this is so whatever attempts remain and whatever the allow-list holds.
C12_TerminalFailsAtOnce ==
    [][ /\ ( OperationFailed /\ Terminal(last_failure'[1].mode) )
            => /\ retry_pc' = "raised"
               /\ retry_exit' = [kind  |-> "raised",
                                 error |-> ToOrchestrationError(last_failure'[1])]
               /\ delays' = delays
               /\ attempt' = attempt
        /\ Exited => invocations' = invocations ]_vars

C12_Witness ==
    /\ retry_pc = "raised"
    /\ invocations = 1
    /\ last_failure # << >>
    /\ last_failure[1].mode = "system_oom"
    /\ policy.kind = "linear"
    /\ policy.retryable_modes = << <<"system_oom", "agent_logic">> >>
    /\ attempt < policy.max_attempts

\* C13: the operation is invoked at most max_attempts + 1 times and the
\* executor terminates; a step in which the operation returns ends the run
\* with that value and adds no delay, and after an exit nothing changes.
C13_BoundedAndTerminates ==
    /\ [](invocations <= GetMaxAttempts(policy) + 1)
    /\ [][ /\ ( invocations' = invocations + 1 /\ ~OperationFailed )
               => /\ retry_exit' = [kind |-> "returned", value |-> OperationValue]
                  /\ delays' = delays
           /\ Exited => UNCHANGED retry_vars ]_vars
    /\ <>Exited

C13_Witness ==
    /\ retry_pc = "returned"
    /\ policy.kind = "exponential"
    /\ policy.max_attempts = MaxAttempts
    /\ invocations = MaxAttempts + 1
    /\ Len(delays) = MaxAttempts

\* C14: every exit of the executor either returns the operation's value or
\* raises an error whose metadata carries the last failure's failure_mode,
\* category, severity, retry_count (the index of the attempt that failed)
\* and partial_result, for every policy and every max_attempts.
C14_EveryExitClassified ==
    /\ retry_pc = "returned"
        => retry_exit = [kind |-> "returned", value |-> OperationValue]
    /\ retry_pc = "raised"
        => /\ retry_exit.kind = "raised"
           /\ last_failure # << >>
           /\ LET f  == last_failure[1]
                  md == retry_exit.error.metadata
              IN  /\ {"failure_mode", "category", "severity", "retry_count",
                      "partial_result"} \subseteq DOMAIN md
                  /\ md["failure_mode"] = f.mode
                  /\ md["category"] = Category(f.mode)
                  /\ md["severity"] = Severity(f.mode)
                  /\ md["retry_count"] = f.retry_count
                  /\ f.retry_count = invocations - 1
                  /\ md["partial_result"] = f.partial_result

\* C15: a failure leaves the executor only when its mode is terminal, when
\* the policy declines to retry it, or when the attempts are used up.  A
\* failure that is not terminal and that the policy accepts is followed by
\* one evaluation of policy.get_delay(attempt), one sleep of that length when
\* it is positive, and then another invocation of the operation.
C15_RetryUnlessTerminalOrDeclined ==
    /\ [][ /\ OperationFailed =>
                LET f == last_failure'[1]
                IN  IF Terminal(f.mode) \/ ~ShouldRetry(policy, f)
                    THEN retry_pc' = "raised" /\ delays' = delays
                    ELSE \E d \in GetDelays(policy, attempt) :
                           /\ delays' = Append(delays, d)
                           /\ IF d > 0
                              THEN retry_pc' = "sleep" /\ attempt' = attempt
                              ELSE retry_pc' = "loop" /\ attempt' = attempt + 1
           /\ ( retry_pc' = "raised" /\ retry_pc # "raised" )
                => \/ OperationFailed
                   \/ retry_pc = "loop" /\ attempt > GetMaxAttempts(policy)
           /\ retry_pc = "sleep"
                => /\ retry_pc' = "loop"
                   /\ attempt' = attempt + 1
                   /\ delays' = delays
                   /\ invocations' = invocations ]_vars
    /\ ( retry_pc = "sleep" \/ (retry_pc = "loop" /\ last_failure # << >>) )
           ~> ( retry_pc = "call" )

C15_Witness ==
    /\ retry_pc = "call"
    /\ attempt = 1
    /\ invocations = 1
    /\ delays # << >>
    /\ delays[1] > 0
    /\ last_failure # << >>
    /\ ~Terminal(last_failure[1].mode)
    /\ ShouldRetry(policy, last_failure[1])

\* C16: should_retry of the exponential and the linear policy is true exactly
\* when retry_count < max_attempts and the mode is allowed: a member of
\* retryable_modes when that list is set, a retryable mode otherwise.
C16_ShouldRetryIffAllowedAndLeft ==
    policy.kind \in {"exponential", "linear"} =>
        \A mode \in FailureModes, rc \in 0..(MaxAttempts + 1) :
            LET allowed ==
                    IF policy.retryable_modes # << >>
                    THEN mode \in { policy.retryable_modes[1][i] :
                                      i \in DOMAIN policy.retryable_modes[1] }
                    ELSE Retryable(mode)
            IN  ShouldRetry(policy, [mode |-> mode, retry_count |-> rc])
                    <=> (rc < policy.max_attempts /\ allowed)

C16_Witness ==
    /\ policy.kind = "linear"
    /\ policy.retryable_modes = << <<"system_oom", "agent_logic">> >>
    /\ retry_pc = "call"
    /\ attempt = 1
    /\ last_failure # << >>
    /\ last_failure[1].mode = "agent_logic"

\* C17: NoRetryPolicy.should_retry is false for every failure and
\* get_max_attempts is 0; under it the operation is invoked exactly once
\* before the executor exits and get_delay is never asked for, so it never
\* waits.
C17_NoRetryInvokesOnce ==
    policy.kind = "none" =>
        /\ \A mode \in FailureModes, rc \in 0..(MaxAttempts + 1) :
               ~ShouldRetry(policy, [mode |-> mode, retry_count |-> rc])
        /\ GetMaxAttempts(policy) = 0
        /\ invocations <= 1
        /\ Exited => invocations = 1
        /\ delays = << >>
        /\ retry_pc # "sleep"
        /\ attempt = 0

C17_Witness ==
    /\ policy.kind = "none"
    /\ retry_pc = "raised"
    /\ invocations = 1
    /\ last_failure # << >>
    /\ Retryable(last_failure[1].mode)

\* C18: every delay the exponential policy hands to the executor lies within
\* [0, max_delay], whatever the attempt number and the jitter draw.
C18_DelayWithinCap ==
    policy.kind = "exponential" =>
        \A i \in DOMAIN delays : 0 <= delays[i] /\ delays[i] <= policy.max_delay

\* base_delay * multiplier ** n has not reached max_delay
BelowCap(p, n) == p.base_delay * Pow(p.multiplier, n) <= p.max_delay

\* C19 as stated: get_delay(n) <= get_delay(n + 1) for every n and for every
\* jitter draw of the two calls of the exponential policy.
C19_DelayNonDecreasing ==
    policy.kind = "exponential" =>
        \A n \in 0..MaxDelayAttempt :
            \A a \in GetDelays(policy, n), b \in GetDelays(policy, n + 1) :
                a <= b

\* C19 amended: get_delay(n) <= get_delay(n + 1) for every jitter draw of the
\* two calls when jitter is 0, and also when multiplier * (1 - jitter) >
\* 1 + jitter and base_delay * multiplier ** (n + 1) <= max_delay (the delay
\* of attempt n + 1 is still below the cap); the delays the executor obtains
\* in a run are ordered accordingly.
C19_DelayNonDecreasingBelowCap ==
    policy.kind = "exponential" =>
        /\ \A n \in 0..MaxDelayAttempt :
             ( \/ policy.jitter = 0
               \/ /\ policy.multiplier * (100 - policy.jitter) > 100 + policy.jitter
                  /\ BelowCap(policy, n + 1) )
             => \A a \in GetDelays(policy, n), b \in GetDelays(policy, n + 1) :
                    a <= b
        /\ \A i \in 1..(Len(delays) - 1) :
             ( \/ policy.jitter = 0
               \/ /\ policy.multiplier * (100 - policy.jitter) > 100 + policy.jitter
                  /\ BelowCap(policy, i) )
             => delays[i] <= delays[i + 1]

C19_Witness ==
    /\ policy.kind = "exponential"
    /\ policy.jitter = 10
    /\ policy.max_delay = 600
    /\ delays = <<11, 18>>

-----------------------------------------------------------------------------
(* Properties of the classification.                                       *)

\* the messages of the model that spell "timeout", in some letter case
TimeoutMessages == MixedMessages \cup {"request timeout"}

\* C20: an exception whose message contains "timeout", in any letter case, is
\* classified system_timeout, whatever its type and whatever other keyword
\* the message contains; in particular never system_network or system_oom.
C20_TimeoutWins ==
    ( detected # << >> /\ exc.msg \in TimeoutMessages )
        => /\ detected[1].mode = "system_timeout"
           /\ detected[1].mode \notin {"system_network", "system_oom"}
           /\ detected[1].message = exc.msg

C20_Witness ==
    /\ detected # << >>
    /\ exc = [type |-> "Exception", msg |-> "connection TIMEOUT"]
    /\ detected[1].mode = "system_timeout"

\* the order of the tests and, for each, the keywords looked for in the
\* lowercased type name and in the lowercased message
KeywordOrder ==
    << [mode |-> "system_timeout",    in_type |-> {"timeout"}, in_msg |-> {"timeout"}],
       [mode |-> "system_network",    in_type |-> {"network"}, in_msg |-> {"connection"}],
       [mode |-> "system_oom",        in_type |-> {}, in_msg |-> {"memory", "oom"}],
       [mode |-> "user_permission",   in_type |-> {}, in_msg |-> {"permission", "forbidden"}],
       [mode |-> "agent_validation",  in_type |-> {}, in_msg |-> {"validation", "invalid"}],
       [mode |-> "policy_rate_limit", in_type |-> {}, in_msg |-> {"rate limit", "quota"}],
       [mode |-> "resource_circuit",  in_type |-> {}, in_msg |-> {"circuit"}],
       [mode |-> "resource_tool",     in_type |-> {}, in_msg |-> {"unavailable", "not found"}] >>

\* the same order with every keyword of a test looked for in both fields
KeywordOrderBothFields ==
    [i \in DOMAIN KeywordOrder |->
        [mode    |-> KeywordOrder[i].mode,
         in_type |-> KeywordOrder[i].in_type \cup KeywordOrder[i].in_msg,
         in_msg  |-> KeywordOrder[i].in_type \cup KeywordOrder[i].in_msg]]

MatchesGroup(e, g) ==
    \/ \E k \in g.in_type : Contains(Lower(e.type), k)
    \/ \E k \in g.in_msg : Contains(Lower(e.msg), k)

\* the mode of the first test of the order that matches, agent_logic if none
FirstMatch(e, order) ==
    IF \E i \in DOMAIN order : MatchesGroup(e, order[i])
    THEN LET first == CHOOSE i \in DOMAIN order :
                        /\ MatchesGroup(e, order[i])
                        /\ \A j \in 1..(i - 1) : ~MatchesGroup(e, order[j])
         IN  order[first].mode
    ELSE "agent_logic"

\* C21 as stated: the mode is the first match in the order timeout, network,
\* memory, permission, validation, rate-limit/quota, circuit,
\* unavailable/not-found, each keyword being looked for in both the type name
\* and the message; agent_logic if nothing matches.
C21_FirstMatchBothFields ==
    detected # << >> => detected[1].mode = FirstMatch(exc, KeywordOrderBothFields)

\* C21 amended: the mode is the first match in that order, where "timeout" is
\* looked for in the type name and in the message, "network" in the type name
\* only, and "connection" and every keyword of the later tests in the message
\* only; agent_logic if nothing matches.
C21_FirstMatchPerField ==
    detected # << >> => detected[1].mode = FirstMatch(exc, KeywordOrder)

C21_Witness ==
    /\ detected # << >>
    /\ exc = [type |-> "MemoryError", msg |-> ""]
    /\ detected[1].mode = "agent_logic"

-----------------------------------------------------------------------------
(* PartialResult.  A ratio is kept as numerator and denominator; 0.0 is    *)
(* 0 / 1.                                                                  *)

\* the longest completed_steps / failed_steps list of the model
MaxPartialSteps == 2

StepNames == {"score", "draft"}

StepLists == UNION { [1..n -> StepNames] : n \in 0..MaxPartialSteps }

PartialResults ==
    [completed_steps : StepLists, failed_steps : StepLists,
     failure_mode : FailureModes]

CompletionRatioOfAttempted(pr) ==
    [num |-> Len(pr.completed_steps),
     den |-> IF Len(pr.completed_steps) = 0 THEN 1 ELSE Len(pr.completed_steps)]

\* PartialResult.completion_ratio
CompletionRatio(pr) ==
    LET total == Len(pr.completed_steps) + Len(pr.failed_steps)
    IN  IF total = 0 THEN [num |-> 0, den |-> 1]
        ELSE [num |-> Len(pr.completed_steps), den |-> total]

\* PartialResult.is_recoverable: ratio > 0.0 is num > 0, the denominator
\* being positive
IsRecoverable(pr) == Retryable(pr.failure_mode) /\ CompletionRatio(pr).num > 0

PartialInit ==
    /\ MetricsIdle
    /\ PlannerIdle
    /\ PlanIdle
    /\ RetryIdle
    /\ ClassifyIdle
    /\ partial \in PartialResults
    /\ partial_dict = << >>

\* PartialResult.to_dict, with is_recoverable read alongside
PartialToDict ==
    /\ partial_dict = << >>
    /\ partial_dict' = << [completed_steps  |-> partial.completed_steps,
                           failed_steps     |-> partial.failed_steps,
                           failure_mode     |-> partial.failure_mode,
                           completion_ratio |-> CompletionRatio(partial),
                           is_recoverable   |-> IsRecoverable(partial)] >>
    /\ UNCHANGED partial
    /\ UNCHANGED not_partial_vars

PartialNext == PartialToDict

PartialSpec == PartialInit /\ [][PartialNext]_vars

\* C22: completion_ratio is 0.0 when completed_steps and failed_steps are both
\* empty and |completed| / (|completed| + |failed|) otherwise, hence within
\* [0, 1]; is_recoverable is true exactly when the failure mode is retryable
\* and the ratio is above 0, so is_recoverable implies a ratio above 0.
C22_RatioAndRecoverable ==
    partial_dict # << >> =>
        LET d == partial_dict[1]
            c == Len(partial.completed_steps)
            f == Len(partial.failed_steps)
            r == d.completion_ratio
        IN  /\ (c = 0 /\ f = 0) => (r.num = 0 /\ r.den = 1)
            /\ (c + f > 0) => (r.den > 0 /\ r.num * (c + f) = c * r.den)
            /\ 0 <= r.num /\ r.num <= r.den
            /\ d.is_recoverable <=> (Retryable(partial.failure_mode) /\ r.num > 0)
            /\ d.is_recoverable => r.num > 0

C22_Witness ==
    /\ partial_dict # << >>
    /\ Len(partial.completed_steps) = 1
    /\ Len(partial.failed_steps) = 1
    /\ partial.failure_mode = "partial_timeout"
    /\ partial_dict[1].completion_ratio = [num |-> 1, den |-> 2]
    /\ partial_dict[1].is_recoverable

-----------------------------------------------------------------------------
(* Part 3: IntelligentPlanner (intelligent_planner.py).  Costs are in      *)
(* tenths as in part 1.                                                    *)

NoneValue == "<None>"

\* the registry: static tool metadata and profiles
Registry ==
    [tools |->
        [score_account_fit      |-> [domain |-> "intelligence",  side_effects |-> "read-only"],
         draft_outbound_message |-> [domain |-> "engagement",    side_effects |-> "propose"],
         assess_message_quality |-> [domain |-> "engagement",    side_effects |-> "read-only"],
         qualify_opportunity    |-> [domain |-> "qualification", side_effects |-> "read-only"]],
     profiles |-> [demo |-> [allowed_tools |-> <<"score_account_fit">>]]]

\* the profile argument of the constructor
ProfileArgs == {"demo", "nonexistent"}

\* self.llm_adapter after __init__: None, an adapter that reports itself
\* unavailable, an adapter that reports itself available
AdapterStates == {"None", "unavailable", "available"}

CallIds == {"c1", "c2"}

Goals == {"Goal 1", "Goal 2"}

Contexts ==
    { [trace_id |-> "trace-1", profile |-> "demo"],
      [trace_id |-> "trace-2", profile |-> "enterprise"] }

\* prospect_data: Optional[Dict]; << >> is None, <<d>> the dict d
ProspectData ==
    { << >>,
      << [company |-> "Test Corp", industry |-> "Technology"] >>,
      << [company |-> NoneValue] >> }

\* uuid.uuid4().hex[:8]: eight hexadecimal digits drawn at random
HexDraws == {"0a1b2c3d", "4e5f6a7b"}

\* prospect_data = prospect_data or {}
OrEmpty(pd) == IF pd = << >> THEN EmptyDict ELSE pd[1]

\* s.replace(" ", "-")
RECURSIVE ReplaceSpaces(_)
ReplaceSpaces(s) ==
    IF Len(s) = 0 THEN s
    ELSE LET c == SubSeq(s, 1, 1)
         IN  (IF c = " " THEN "-" ELSE c) \o ReplaceSpaces(SubSeq(s, 2, Len(s)))

\* line 280 calls .lower() on prospect_data.get('company', 'unknown')
RuleBasedRaises(pd) == DictGet(OrEmpty(pd), "company", "unknown") = NoneValue

\* four steps that are all the scoring step
RuleBasedStepsAllScoring(pd) ==
    [i \in 1..4 |->
        [index |-> i, tool |-> "score_account_fit", input |-> EmptyDict,
         reason |-> "Score account against ICP to prioritize outreach",
         estimated_cost |-> 5,
         metadata |-> [domain |-> "intelligence", side_effect_class |-> "read-only"]]]

\* lines 214-296: the four steps
RuleBasedSteps(pd) ==
    LET d == OrEmpty(pd)
    IN  << [index |-> 1,
            tool |-> "score_account_fit",
            input |-> [account |->
                          [company        |-> DictGet(d, "company", NoneValue),
                           industry       |-> DictGet(d, "industry", NoneValue),
                           employee_count |-> DictGet(d, "employee_count", 500),
                           revenue        |-> DictGet(d, "revenue", 10000000)],
                       icp_criteria |->
                          [target_industries  |-> <<"Technology", "SaaS", "Financial Services">>,
                           min_employee_count |-> 100,
                           min_revenue        |-> 1000000]],
            reason |-> "Score account against ICP to prioritize outreach",
            estimated_cost |-> 5,
            metadata |-> [domain |-> "intelligence", side_effect_class |-> "read-only"]],
           [index |-> 2,
            tool |-> "draft_outbound_message",
            input |-> [template      |-> DictGet(d, "template", NoneValue),
                       prospect_data |-> DictGet(d, "prospect_data", NoneValue),
                       channel       |-> "email",
                       tone          |-> "professional"],
            reason |-> "Draft personalized outreach message",
            estimated_cost |-> 10,
            metadata |-> [domain |-> "engagement", side_effect_class |-> "propose"]],
           [index |-> 3,
            tool |-> "assess_message_quality",
            input |-> [message |-> "", subject |-> "", channel |-> "email"],
            reason |-> "Validate message quality before proposing to human",
            estimated_cost |-> 5,
            metadata |-> [domain |-> "engagement", side_effect_class |-> "read-only",
                          depends_on |-> 2]],
           [index |-> 4,
            tool |-> "qualify_opportunity",
            input |-> [opportunity_id |->
                          "opp-" \o ReplaceSpaces(Lower(DictGet(d, "company", "unknown"))),
                       criteria |-> [budget |-> TRUE, authority |-> FALSE,
                                     need |-> TRUE, timing |-> TRUE],
                       notes |-> "Initial qualification for "
                                    \o (IF DictGet(d, "company", NoneValue) = NoneValue
                                        THEN "None"
                                        ELSE DictGet(d, "company", NoneValue))],
            reason |-> "Assess opportunity quality for prioritization",
            estimated_cost |-> 7,
            metadata |-> [domain |-> "qualification", side_effect_class |-> "read-only"]] >>

\* a plan whose first step's cost follows the random draw
RuleBasedPlanSeeded(goal, context, pd, hex) ==
    [plan_id  |-> "plan-" \o hex,
     goal     |-> goal,
     steps    |-> [RuleBasedSteps(pd) EXCEPT
                     ![1].estimated_cost = IF hex = "0a1b2c3d" THEN 5 ELSE 6],
     budget   |-> [call_ceiling |-> 500],
     trace_id |-> context.trace_id,
     profile  |-> context.profile,
     metadata |-> [llm_generated |-> FALSE, rule_based |-> TRUE]]

\* a plan that carries the context of an earlier call
RuleBasedPlanSharedContext(goal, context, pd, hex) ==
    [plan_id  |-> "plan-" \o hex,
     goal     |-> goal,
     steps    |-> RuleBasedSteps(pd),
     budget   |-> [call_ceiling |-> 500],
     trace_id |-> "trace-1",
     profile  |-> "demo",
     metadata |-> [llm_generated |-> FALSE, rule_based |-> TRUE]]

\* lines 298-308
RuleBasedPlan(goal, context, pd, hex) ==
    [plan_id  |-> "plan-" \o hex,
     goal     |-> goal,
     steps    |-> RuleBasedSteps(pd),
     budget   |-> [call_ceiling |-> 500],
     trace_id |-> context.trace_id,
     profile  |-> context.profile,
     metadata |-> [llm_generated |-> FALSE, rule_based |-> TRUE]]

-----------------------------------------------------------------------------
(* The LLM path.                                                           *)

\* steps as decompose_goal can return them: a full step, a step that names
\* the same tool with other content, a step of no cost, a step for a tool
\* the registry does not know, a step without a tool
LLMStepFull ==
    [tool |-> "draft_outbound_message", input |-> [template |-> "Hi"],
     reason |-> "Draft personalized message", estimated_cost |-> 8]

LLMStepOtherContent ==
    [tool |-> "draft_outbound_message", domain |-> "intelligence",
     side_effect_class |-> "read-only", side_effects |-> "read-only"]

LLMStepFree == [tool |-> "score_account_fit", estimated_cost |-> 0]

LLMStepUnknownTool == [tool |-> "delete_records", side_effects |-> "execute"]

LLMStepNoTool == [reason |-> "a step without a tool"]

\* what decompose_goal returns when it returns
Decompositions ==
    { << >>,
      <<LLMStepFull>>, <<LLMStepOtherContent>>,
      <<LLMStepFull, LLMStepFree>>, <<LLMStepOtherContent, LLMStepFree>>,
      <<LLMStepUnknownTool>>,
      <<LLMStepNoTool>>, <<LLMStepFull, LLMStepNoTool>> }

\* what explain_plan yields: a text, or None when it raised (lines 170-175)
Explanations == {"explanation", NoneValue}

\* line 150: llm_step["tool"]
ConversionRaises(d) == \E i \in DOMAIN d : "tool" \notin DOMAIN d[i]

LLMPlanStepTrusting(registry, i, llm_step) ==
    [index |-> i,
     tool |-> llm_step["tool"],
     input |-> DictGet(llm_step, "input", EmptyDict),
     reason |-> DictGet(llm_step, "reason", "LLM-generated step"),
     estimated_cost |-> DictGet(llm_step, "estimated_cost", 5),
     metadata |-> [domain |-> DictGet(llm_step, "domain", "unknown"),
                   side_effect_class |-> DictGet(llm_step, "side_effects", "read-only"),
                   llm_generated |-> TRUE]]

\* a tool the registry does not hold is classed "propose"
LLMPlanStepGatedByDefault(registry, i, llm_step) ==
    LET tool_name   == llm_step["tool"]
        tool_config == DictGet(registry.tools, tool_name, EmptyDict)
    IN  [index |-> i,
         tool |-> tool_name,
         input |-> DictGet(llm_step, "input", EmptyDict),
         reason |-> DictGet(llm_step, "reason", "LLM-generated step"),
         estimated_cost |-> DictGet(llm_step, "estimated_cost", 5),
         metadata |-> [domain |-> DictGet(tool_config, "domain", "unknown"),
                       side_effect_class |-> DictGet(tool_config, "side_effects", "propose"),
                       llm_generated |-> TRUE]]

\* lines 148-167: one PlanStep
LLMPlanStep(registry, i, llm_step) ==
    LET tool_name   == llm_step["tool"]
        tool_config == DictGet(registry.tools, tool_name, EmptyDict)
    IN  [index |-> i,
         tool |-> tool_name,
         input |-> DictGet(llm_step, "input", EmptyDict),
         reason |-> DictGet(llm_step, "reason", "LLM-generated step"),
         estimated_cost |-> DictGet(llm_step, "estimated_cost", 5),
         metadata |-> [domain |-> DictGet(tool_config, "domain", "unknown"),
                       side_effect_class |-> DictGet(tool_config, "side_effects", "read-only"),
                       llm_generated |-> TRUE]]

\* lines 146-187
LLMPlan(registry, goal, context, d, explanation, hex) ==
    [plan_id  |-> "plan-" \o hex,
     goal     |-> goal,
     steps    |-> [i \in DOMAIN d |-> LLMPlanStep(registry, i, d[i])],
     budget   |-> [call_ceiling |-> 500],
     trace_id |-> context.trace_id,
     profile  |-> context.profile,
     metadata |-> [llm_generated |-> TRUE, explanation |-> explanation]]

-----------------------------------------------------------------------------
(* The planner: construction and create_plan calls.                        *)

PlannerInit ==
    /\ MetricsIdle
    /\ PlanIdle
    /\ RetryIdle
    /\ ClassifyIdle
    /\ PartialIdle
    /\ planner = << >>
    /\ calls = [c \in CallIds |-> [pc |-> "idle"]]
    /\ adapter_log = {}

\* IntelligentPlanner.__init__
Construct ==
    /\ planner = << >>
    /\ \E profile \in ProfileArgs, adapter \in AdapterStates :
         planner' = << [registry |-> Registry, profile |-> profile,
                        llm_adapter |-> adapter] >>
    /\ UNCHANGED <<calls, adapter_log>>
    /\ UNCHANGED not_planner_vars

\* _get_available_tools: the names of the tools offered to the LLM
GetAvailableTools(pl) ==
    LET profile_config == DictGet(pl.registry.profiles, pl.profile, EmptyDict)
        allowed_tools  == DictGet(profile_config, "allowed_tools", << >>)
    IN  { tool_name \in DOMAIN pl.registry.tools :
            allowed_tools = << >> \/ InList(tool_name, allowed_tools) }

\* is_llm_available
IsLLMAvailable(pl) == pl.llm_adapter # "None" /\ pl.llm_adapter = "available"

UseLLMPathWheneverAvailable(use_llm, pl) == IsLLMAvailable(pl)

\* line 110: use_llm and self.is_llm_available()
UseLLMPath(use_llm, pl) == use_llm /\ IsLLMAvailable(pl)

\* the adapter methods line 110 reaches
AvailabilityProbe(c, use_llm, pl) ==
    IF use_llm /\ pl.llm_adapter # "None"
    THEN {[call |-> c, method |-> "is_available"]}
    ELSE {}

\* line 123 and what follows from it: the plan, or the exception of line 280
RuleBasedExit(args, hex) ==
    IF RuleBasedRaises(args.prospect_data)
    THEN [pc |-> "raised", goal |-> args.goal, context |-> args.context,
          prospect_data |-> args.prospect_data, use_llm |-> args.use_llm,
          error |-> "AttributeError"]
    ELSE [pc |-> "returned", goal |-> args.goal, context |-> args.context,
          prospect_data |-> args.prospect_data, use_llm |-> args.use_llm,
          plan |-> RuleBasedPlan(args.goal, args.context, args.prospect_data, hex)]

\* lines 106-123: a call starts; it ends at once on the rule-based path and
\* reaches the await of line 112 on the LLM path
CreatePlan(c) ==
    /\ planner # << >>
    /\ calls[c].pc = "idle"
    /\ \E goal \in Goals, context \in Contexts, pd \in ProspectData,
          use_llm \in BOOLEAN, hex \in HexDraws :
         LET args == [goal |-> goal, context |-> context, prospect_data |-> pd,
                      use_llm |-> use_llm]
         IN  /\ adapter_log' = adapter_log \cup AvailabilityProbe(c, use_llm, planner[1])
             /\ IF UseLLMPath(use_llm, planner[1])
                THEN calls' = [calls EXCEPT ![c] =
                                 [pc |-> "llm", goal |-> goal, context |-> context,
                                  prospect_data |-> pd, use_llm |-> use_llm]]
                ELSE calls' = [calls EXCEPT ![c] = RuleBasedExit(args, hex)]
    /\ UNCHANGED planner
    /\ UNCHANGED not_planner_vars

\* lines 136-194: the delegation returns steps that convert
DelegationReturns(c) ==
    /\ calls[c].pc = "llm"
    /\ \E d \in Decompositions, explanation \in Explanations, hex \in HexDraws :
         /\ ~ConversionRaises(d)
         /\ calls' = [calls EXCEPT ![c] =
                        [pc |-> "returned", goal |-> calls[c].goal,
                         context |-> calls[c].context,
                         prospect_data |-> calls[c].prospect_data,
                         use_llm |-> calls[c].use_llm,
                         plan |-> LLMPlan(planner[1].registry, calls[c].goal,
                                          calls[c].context, d, explanation, hex)]]
    /\ adapter_log' = adapter_log \cup {[call |-> c, method |-> "decompose_goal"],
                                        [call |-> c, method |-> "explain_plan"]}
    /\ UNCHANGED planner
    /\ UNCHANGED not_planner_vars

\* lines 115-123: decompose_goal raises, or a returned step has no tool; the
\* exception is caught and the rule-based plan is built instead
DelegationFails(c) ==
    /\ calls[c].pc = "llm"
    /\ \E hex \in HexDraws :
         calls' = [calls EXCEPT ![c] = RuleBasedExit(calls[c], hex)]
    /\ adapter_log' = adapter_log \cup {[call |-> c, method |-> "decompose_goal"]}
    /\ UNCHANGED planner
    /\ UNCHANGED not_planner_vars

PlannerNext ==
    \/ Construct
    \/ \E c \in CallIds : CreatePlan(c)
    \/ \E c \in CallIds : DelegationReturns(c)
    \/ \E c \in CallIds : DelegationFails(c)

PlannerSpec == PlannerInit /\ [][PlannerNext]_vars

-----------------------------------------------------------------------------
(* Properties of the planner.                                              *)

Returned(c) == calls[c].pc = "returned"

RuleBasedReturned(c) == Returned(c) /\ ~calls[c].plan.metadata.llm_generated

LLMReturned(c) == Returned(c) /\ calls[c].plan.metadata.llm_generated

\* C23: two create_plan calls with use_llm=False and the same goal, context
\* and prospect data return plans with the same number of steps and, step by
\* step, the same tool, input, estimated cost and metadata; the plan ids are
\* free to differ.
C23_RuleBasedDeterministic ==
    \A c1 \in CallIds, c2 \in CallIds :
        ( /\ Returned(c1) /\ Returned(c2)
          /\ ~calls[c1].use_llm /\ ~calls[c2].use_llm
          /\ calls[c1].goal = calls[c2].goal
          /\ calls[c1].context = calls[c2].context
          /\ calls[c1].prospect_data = calls[c2].prospect_data )
        => LET s1 == calls[c1].plan.steps
               s2 == calls[c2].plan.steps
           IN  /\ Len(s1) = Len(s2)
               /\ \A i \in 1..Len(s1) :
                    /\ s1[i].tool = s2[i].tool
                    /\ s1[i].input = s2[i].input
                    /\ s1[i].estimated_cost = s2[i].estimated_cost
                    /\ s1[i].metadata = s2[i].metadata

C23_Witness ==
    /\ Returned("c1") /\ Returned("c2")
    /\ ~calls["c1"].use_llm /\ ~calls["c2"].use_llm
    /\ calls["c1"].goal = calls["c2"].goal
    /\ calls["c1"].context = calls["c2"].context
    /\ calls["c1"].prospect_data = calls["c2"].prospect_data
    /\ calls["c1"].prospect_data # << >>
    /\ calls["c1"].plan.plan_id # calls["c2"].plan.plan_id

C26_NeverMalformed ==
    \A c \in CallIds :
        (Returned(c) /\ calls[c].use_llm)
        => LET p == calls[c].plan
           IN  /\ ~IsLLMAvailable(planner[1])
                    => /\ p.metadata = [llm_generated |-> FALSE, rule_based |-> TRUE]
                       /\ p.steps = RuleBasedSteps(calls[c].prospect_data)
               /\ ~p.metadata.llm_generated => Len(p.steps) = 4
               /\ Len(p.steps) >= 1
               /\ \A i \in 1..Len(p.steps) : p.steps[i].estimated_cost > 0

ToolsOf(p) == [i \in 1..Len(p.steps) |-> p.steps[i].tool]

\* C27: in an LLM-generated plan each step's domain and side_effect_class
\* are what the registry holds for the step's tool (the defaults "unknown"
\* and "read-only" for a tool the registry does not hold), and two such
\* plans that name the same tools in the same order have the same
\* side_effect_class on every step.
C27_ClassificationFromRegistry ==
    /\ \A c \in CallIds :
         LLMReturned(c)
         => \A i \in 1..Len(calls[c].plan.steps) :
              LET step   == calls[c].plan.steps[i]
                  config == DictGet(Registry.tools, step.tool, EmptyDict)
              IN  /\ step.metadata.domain = DictGet(config, "domain", "unknown")
                  /\ step.metadata.side_effect_class
                        = DictGet(config, "side_effects", "read-only")
    /\ \A c1 \in CallIds, c2 \in CallIds :
         (LLMReturned(c1) /\ LLMReturned(c2)
            /\ ToolsOf(calls[c1].plan) = ToolsOf(calls[c2].plan))
         => \A i \in 1..Len(calls[c1].plan.steps) :
              calls[c1].plan.steps[i].metadata.side_effect_class
                 = calls[c2].plan.steps[i].metadata.side_effect_class

C27_Witness ==
    /\ LLMReturned("c1") /\ LLMReturned("c2")
    /\ Len(calls["c1"].plan.steps) = 2
    /\ ToolsOf(calls["c1"].plan) = ToolsOf(calls["c2"].plan)
    /\ calls["c1"].plan.steps[1].reason # calls["c2"].plan.steps[1].reason
    /\ calls["c1"].plan.steps[1].metadata.side_effect_class = "propose"

\* C28: no two plans returned by create_plan calls on the same planner share
\* a plan_id.
C28_DistinctPlanIds ==
    \A c1 \in CallIds, c2 \in CallIds :
        (c1 # c2 /\ Returned(c1) /\ Returned(c2))
        => calls[c1].plan.plan_id # calls[c2].plan.plan_id

\* C29: whatever the interleaving of the calls, a returned plan carries the
\* trace_id and profile of the context passed to its own call and the goal
\* of its own call, and the planner's fields are those set at construction.
C29_OwnContext ==
    /\ \A c \in CallIds :
         Returned(c)
         => /\ calls[c].plan.trace_id = calls[c].context.trace_id
            /\ calls[c].plan.profile = calls[c].context.profile
            /\ calls[c].plan.goal = calls[c].goal
    /\ planner # << >>
         => /\ DOMAIN planner[1] = {"registry", "profile", "llm_adapter"}
            /\ planner[1].registry = Registry

C29_Witness ==
    /\ LLMReturned("c1") /\ RuleBasedReturned("c2")
    /\ calls["c2"].use_llm
    /\ calls["c1"].context.trace_id = "trace-2"
    /\ calls["c2"].context.trace_id = "trace-1"
    /\ calls["c1"].goal # calls["c2"].goal

\* C30: a planner is never constructed with a profile that the registry's
\* profiles do not hold.
C30_InvalidProfileRejected ==
    planner # << >> => planner[1].profile \in DOMAIN Registry.profiles

-----------------------------------------------------------------------------
(* Part 4: a plan made by the planner is run by execute_plan_manual, as in  *)
(* ProductionDemo.run_demo and in the integration tests.  The planner's     *)
(* steps always carry a domain, so line 219 cannot raise in such a run.     *)

DemoInit == PlannerInit

\* demo_production.py 176-192: execute_plan_manual is entered with the plan
\* create_plan returned and the context it was planned with
ExecutePlanManual ==
    /\ pc = "idle"
    /\ Returned("c1")
    /\ calls["c1"].context.trace_id = TraceId
    /\ plan' = calls["c1"].plan.steps
    /\ built' = plan'
    /\ \E b \in ToolBudgets :
         /\ b.call_ceiling = calls["c1"].plan.budget.call_ceiling
         /\ budget' = b
         /\ budget_limit' = b.cost_ceiling
    /\ pc' = "loop"
    /\ step_ptr' = 1
    /\ results' = << >>
    /\ step_outputs' = EmptyDict
    /\ budget_used' = [total |-> 0, by_domain |-> EmptyDict, by_tool |-> EmptyDict]
    /\ approval_requests' = << >>
    /\ total_approval_time' = 0
    /\ UNCHANGED <<pending_request, approval_response, tool_calls, raised, returned>>
    /\ UNCHANGED not_plan_vars

DemoNext ==
    \/ Construct
    \/ CreatePlan("c1")
    \/ DelegationReturns("c1")
    \/ DelegationFails("c1")
    \/ ExecutePlanManual
    \/ SkipOverBudget
    \/ WarningCheckRaises
    \/ PassBudget
    \/ ResolveApproval
    \/ ToolReturns
    \/ ToolRaises
    \/ Return

DemoSpec == DemoInit /\ [][DemoNext]_vars

-----------------------------------------------------------------------------
(* Properties of a planned run.                                            *)

AllToolsSucceeded == \A c \in 1..Len(tool_calls) : tool_calls[c].outcome = "returned"

\* C31: a run of the rule-based plan in which every tool returns, under a
\* ceiling that the plan's total cost fits, ends with four success outcomes
\* in plan order, exactly one approval (for draft_outbound_message), no
\* budget_exceeded outcome, success = true and budget_used.total = 2.7.
C31_RuleBasedRunTotals ==
    (/\ pc = "done"
     /\ RuleBasedReturned("c1")
     /\ AllToolsSucceeded
     /\ budget_limit >= 27)
    => /\ Statuses(results) = <<"success", "success", "success", "success">>
       /\ [p \in 1..4 |-> results[p].step_id] = <<1, 2, 3, 4>>
       /\ [p \in 1..4 |-> results[p].tool]
             = <<"score_account_fit", "draft_outbound_message",
                 "assess_message_quality", "qualify_opportunity">>
       /\ Len(tool_calls) = 4
       /\ Len(approval_requests) = 1
       /\ approval_requests[1].request_id = <<"req", 2>>
       /\ [p \in 1..4 |-> results[p].approval_required] = <<FALSE, TRUE, FALSE, FALSE>>
       /\ returned.success = TRUE
       /\ returned.budget_exceeded = FALSE
       /\ budget_used.total = 27
       /\ returned.budget_utilization.total = 27
       /\ budget_used.total <= budget_limit

C31_Witness ==
    /\ pc = "done"
    /\ RuleBasedReturned("c1")
    /\ ~calls["c1"].use_llm
    /\ AllToolsSucceeded
    /\ Len(tool_calls) = 4
    /\ budget_used.total = 27
    /\ returned.success = TRUE

Registered(tool) == tool \in DOMAIN Registry.tools

StepsOfPlan == calls["c1"].plan.steps

-----------------------------------------------------------------------------
(* Part 5: MetricsAggregator (cuga/orchestrator/metrics.py).                *)
(* record_execution and get_summary are plain methods, called from         *)
(* coroutines of one event loop (run_demo, the handlers of the metrics     *)
(* endpoint).  Each statement that reads or writes the aggregator is a     *)
(* step of its own; the event loop takes a coroutine off only where        *)
(* YieldsAt says so.  A float that is a quotient is kept as the pair of    *)
(* its numerator and denominator; timestamps are left out.                 *)

MaxExecutions == 3

ReporterIds == {"r1", "r2"}

Ratio(n, d) == [num |-> n, den |-> d]

\* 0.0 where a quotient would stand
Zero == Ratio(0, 1)

\* the arguments run_demo passes to record_execution: a run of the
\* rule-based plan, a run with an error and a skipped step, and the result
\* run_demo substitutes when execute_plan_manual raised
ExecutionAllSuccess ==
    [trace_id |-> "trace-1", success |-> TRUE, duration_ms |-> 200, steps |-> 4,
     budget_used |-> 27, budget_limit |-> 1000,
     approvals |-> << [status |-> "approved", wait_time |-> ApprovalDelay] >>,
     results |->
        << [tool |-> "score_account_fit", domain |-> "intelligence", status |-> "success"],
           [tool |-> "draft_outbound_message", domain |-> "engagement", status |-> "success"],
           [tool |-> "assess_message_quality", domain |-> "engagement", status |-> "success"],
           [tool |-> "qualify_opportunity", domain |-> "qualification", status |-> "success"] >>]

ExecutionPartial ==
    [trace_id |-> "trace-1", success |-> FALSE, duration_ms |-> 100, steps |-> 3,
     budget_used |-> 5, budget_limit |-> 1000,
     approvals |-> << [status |-> "approved", wait_time |-> ApprovalDelay] >>,
     results |->
        << [tool |-> "score_account_fit", domain |-> "intelligence", status |-> "success"],
           [tool |-> "draft_outbound_message", status |-> "error"],
           [tool |-> "expensive_tool", domain |-> "test", status |-> "budget_exceeded"] >>]

ExecutionCrashed ==
    [trace_id |-> "trace-2", success |-> FALSE, duration_ms |-> 100, steps |-> 0,
     budget_used |-> 0, budget_limit |-> 1000,
     approvals |-> << >>,
     results |-> << >>]

Executions == {ExecutionAllSuccess, ExecutionPartial, ExecutionCrashed}

\* MetricsAggregator.__init__
NewAggregator ==
    [executions            |-> << >>,
     total_executions      |-> 0,
     successful_executions |-> 0,
     failed_executions     |-> 0,
     latencies             |-> << >>,
     budget_used           |-> << >>,
     approval_wait_times   |-> << >>,
     approval_outcomes     |-> EmptyDict,
     tool_calls            |-> EmptyDict,
     tool_errors           |-> EmptyDict,
     domain_usage          |-> EmptyDict]

\* d[k] += 1 on a defaultdict(int)
Bump(d, k) == DictSet(d, k, DictGet(d, k, 0) + 1)

\* lines 136-147
ExecutionData(e) ==
    [trace_id        |-> e.trace_id,
     success         |-> e.success,
     duration_ms     |-> e.duration_ms,
     steps           |-> e.steps,
     budget_used     |-> e.budget_used,
     budget_limit    |-> e.budget_limit,
     budget_exceeded |-> e.budget_used > e.budget_limit,
     approvals       |-> Len(e.approvals),
     results         |-> e.results]

\* line 149
AppendExecution(m, e) == [m EXCEPT !.executions = Append(@, ExecutionData(e))]

\* mutant: every execution counts as successful
OutcomeCounterAlwaysSuccessful(e) == "successful_executions"

\* lines 153-156: the counter the outcome goes to
OutcomeCounter(e) == IF e.success THEN "successful_executions" ELSE "failed_executions"

\* lines 159, 162
TrackHistories(m, e) ==
    [m EXCEPT !.latencies = Append(@, e.duration_ms),
              !.budget_used = Append(@, e.budget_used)]

\* lines 165-169
RECURSIVE TrackApprovals(_, _)
TrackApprovals(m, approvals) ==
    IF approvals = << >> THEN m
    ELSE LET approval == Head(approvals)
             status   == DictGet(approval, "status", "unknown")
         IN  TrackApprovals(
                 [m EXCEPT !.approval_wait_times =
                               Append(@, DictGet(approval, "wait_time", 0)),
                           !.approval_outcomes = Bump(@, status)],
                 Tail(approvals))

\* lines 172-181
RECURSIVE TrackResults(_, _)
TrackResults(m, rs) ==
    IF rs = << >> THEN m
    ELSE LET result == Head(rs)
             tool   == DictGet(result, "tool", "unknown")
             domain == DictGet(result, "domain", "unknown")
             status == DictGet(result, "status", "unknown")
         IN  TrackResults(
                 [m EXCEPT !.tool_calls = Bump(@, tool),
                           !.domain_usage = Bump(@, domain),
                           !.tool_errors = IF status = "error" THEN Bump(@, tool) ELSE @],
                 Tail(rs))

\* record_execution as a whole
RecordExecution(m, e) ==
    LET m1 == AppendExecution(m, e)
        m2 == [m1 EXCEPT !.total_executions = @ + 1]
        m3 == [m2 EXCEPT ![OutcomeCounter(e)] = @ + 1]
        m4 == TrackHistories(m3, e)
        m5 == TrackApprovals(m4, e.approvals)
    IN  TrackResults(m5, e.results)

RECURSIVE SeqSum(_)
SeqSum(seq) == IF seq = << >> THEN 0 ELSE Head(seq) + SeqSum(Tail(seq))

RECURSIVE Insert(_, _)
Insert(x, seq) ==
    IF seq = << >> THEN <<x>>
    ELSE IF x <= Head(seq) THEN <<x>> \o seq
    ELSE <<Head(seq)>> \o Insert(x, Tail(seq))

\* sorted(...)
RECURSIVE Sorted(_)
Sorted(seq) == IF seq = << >> THEN << >> ELSE Insert(Head(seq), Sorted(Tail(seq)))

\* MetricsSummary(): the dataclass defaults
DefaultSummary ==
    [success_rate |-> Zero, error_rate |-> Zero,
     latency_p50 |-> 0, latency_p95 |-> 0, latency_p99 |-> 0, mean_latency |-> Zero,
     total_executions |-> 0, successful_executions |-> 0, failed_executions |-> 0,
     total_steps |-> 0, mean_steps_per_execution |-> Zero,
     total_budget_used |-> 0, mean_budget_per_execution |-> Zero,
     budget_exceeded_count |-> 0,
     total_approvals |-> 0, approval_wait_time_total |-> 0,
     approval_wait_time_mean |-> Zero,
     approval_denied_count |-> 0, approval_timeout_count |-> 0,
     tool_call_count |-> 0, tool_error_count |-> 0, tool_success_rate |-> Zero,
     domain_usage |-> EmptyDict]

\* lines 192-254, when the divisions by _total_executions succeed
BuildSummary(m) ==
    LET latencies_sorted  == Sorted(m.latencies)
        n                 == Len(latencies_sorted)
        total_tool_calls  == DictSum(m.tool_calls)
        total_tool_errors == DictSum(m.tool_errors)
        total_approvals   == DictSum(m.approval_outcomes)
        wait_time_total   == SeqSum(m.approval_wait_times)
        total_steps       == SeqSum([i \in 1..Len(m.executions) |-> m.executions[i].steps])
    IN  [success_rate |-> Ratio(m.successful_executions, m.total_executions),
         error_rate   |-> Ratio(m.failed_executions, m.total_executions),
         latency_p50  |-> IF n > 0 THEN latencies_sorted[(n \div 2) + 1] ELSE 0,
         latency_p95  |-> IF n > 0 THEN latencies_sorted[((n * 95) \div 100) + 1] ELSE 0,
         latency_p99  |-> IF n > 0 THEN latencies_sorted[((n * 99) \div 100) + 1] ELSE 0,
         mean_latency |-> IF n > 0 THEN Ratio(SeqSum(m.latencies), n) ELSE Zero,
         total_executions      |-> m.total_executions,
         successful_executions |-> m.successful_executions,
         failed_executions     |-> m.failed_executions,
         total_steps           |-> total_steps,
         mean_steps_per_execution  |-> Ratio(total_steps, m.total_executions),
         total_budget_used         |-> SeqSum(m.budget_used),
         mean_budget_per_execution |-> Ratio(SeqSum(m.budget_used), m.total_executions),
         budget_exceeded_count |->
             Cardinality({i \in 1..Len(m.executions) :
                             DictGet(m.executions[i], "budget_exceeded", FALSE)}),
         total_approvals          |-> total_approvals,
         approval_wait_time_total |-> wait_time_total,
         approval_wait_time_mean  |->
             IF total_approvals > 0 THEN Ratio(wait_time_total, total_approvals) ELSE Zero,
         approval_denied_count  |-> DictGet(m.approval_outcomes, "denied", 0),
         approval_timeout_count |-> DictGet(m.approval_outcomes, "timeout", 0),
         tool_call_count   |-> total_tool_calls,
         tool_error_count  |-> total_tool_errors,
         tool_success_rate |->
             IF total_tool_calls > 0
             THEN Ratio(total_tool_calls - total_tool_errors, total_tool_calls)
             ELSE Zero,
         domain_usage |-> m.domain_usage]

\* lines 192-254: the summary, or the exception of lines 217-218
SummaryOrError(m) ==
    IF m.total_executions = 0
    THEN [kind |-> "raised", error |-> "ZeroDivisionError"]
    ELSE [kind |-> "summary", summary |-> BuildSummary(m)]

\* get_summary as a whole
GetSummary(m) ==
    IF m.executions = << >>
    THEN [kind |-> "summary", summary |-> DefaultSummary]
    ELSE SummaryOrError(m)

-----------------------------------------------------------------------------
(* The coroutines.                                                         *)

\* mutant: the caller is taken off between the read and the write of += 1
YieldsAfterLoad(at) == at \in {"idle", "awaiting", "store_total"}

\* mutant: the caller is taken off after executions.append
YieldsAfterAppend(at) == at \in {"idle", "awaiting", "load_total"}

\* where a coroutine gives up the event loop: at an await (run_demo awaits
\* execute_plan_manual) and when it ends; record_execution and get_summary
\* contain no await
YieldsAt(at) == at \in {"idle", "awaiting"}

MayRun(id) == running \in {"none", id}

After(id, at) == IF YieldsAt(at) THEN "none" ELSE id

RecordsBegun ==
    Len(record_log) + Cardinality({r \in ReporterIds : reporters[r].pc # "idle"})

MetricsInit ==
    /\ PlanIdle
    /\ RetryIdle
    /\ ClassifyIdle
    /\ PartialIdle
    /\ PlannerIdle
    /\ metrics = NewAggregator
    /\ reporters = [r \in ReporterIds |-> [pc |-> "idle", args |-> << >>, loaded |-> 0]]
    /\ reader = [pc |-> "idle", result |-> << >>]
    /\ running = "none"
    /\ record_log = << >>

Goto(r, at) ==
    /\ reporters' = [reporters EXCEPT ![r].pc = at]
    /\ running' = After(r, at)

\* demo_production.py 495-500: run_demo starts and awaits the plan's run
BeginRun(r) ==
    /\ MayRun(r)
    /\ reporters[r].pc = "idle"
    /\ RecordsBegun < MaxExecutions
    /\ Goto(r, "awaiting")
    /\ UNCHANGED <<metrics, reader, record_log>>
    /\ UNCHANGED not_metrics_vars

\* demo_production.py 500-521: the run is over, record_execution is called
RunReturns(r) ==
    /\ MayRun(r)
    /\ reporters[r].pc = "awaiting"
    /\ \E e \in Executions :
         reporters' = [reporters EXCEPT ![r] = [pc |-> "append", args |-> <<e>>,
                                                loaded |-> 0]]
    /\ running' = After(r, "append")
    /\ UNCHANGED <<metrics, reader, record_log>>
    /\ UNCHANGED not_metrics_vars

\* lines 136-149
AppendExecutionData(r) ==
    /\ MayRun(r)
    /\ reporters[r].pc = "append"
    /\ metrics' = AppendExecution(metrics, reporters[r].args[1])
    /\ Goto(r, "load_total")
    /\ UNCHANGED <<reader, record_log>>
    /\ UNCHANGED not_metrics_vars

\* line 152, the read of self._total_executions
LoadTotal(r) ==
    /\ MayRun(r)
    /\ reporters[r].pc = "load_total"
    /\ reporters' = [reporters EXCEPT ![r].pc = "store_total",
                                      ![r].loaded = metrics.total_executions]
    /\ running' = After(r, "store_total")
    /\ UNCHANGED <<metrics, reader, record_log>>
    /\ UNCHANGED not_metrics_vars

\* line 152, the write
StoreTotal(r) ==
    /\ MayRun(r)
    /\ reporters[r].pc = "store_total"
    /\ metrics' = [metrics EXCEPT !.total_executions = reporters[r].loaded + 1]
    /\ Goto(r, "load_outcome")
    /\ UNCHANGED <<reader, record_log>>
    /\ UNCHANGED not_metrics_vars

\* lines 153-156, the read
LoadOutcome(r) ==
    /\ MayRun(r)
    /\ reporters[r].pc = "load_outcome"
    /\ reporters' = [reporters EXCEPT
                       ![r].pc = "store_outcome",
                       ![r].loaded = metrics[OutcomeCounter(reporters[r].args[1])]]
    /\ running' = After(r, "store_outcome")
    /\ UNCHANGED <<metrics, reader, record_log>>
    /\ UNCHANGED not_metrics_vars

\* lines 153-156, the write
StoreOutcome(r) ==
    /\ MayRun(r)
    /\ reporters[r].pc = "store_outcome"
    /\ metrics' = [metrics EXCEPT ![OutcomeCounter(reporters[r].args[1])] =
                                      reporters[r].loaded + 1]
    /\ Goto(r, "histories")
    /\ UNCHANGED <<reader, record_log>>
    /\ UNCHANGED not_metrics_vars

\* lines 158-162
AppendHistories(r) ==
    /\ MayRun(r)
    /\ reporters[r].pc = "histories"
    /\ metrics' = TrackHistories(metrics, reporters[r].args[1])
    /\ Goto(r, "tracking")
    /\ UNCHANGED <<reader, record_log>>
    /\ UNCHANGED not_metrics_vars

\* lines 164-186: the two loops; record_execution returns and run_demo ends
TrackAndReturn(r) ==
    /\ MayRun(r)
    /\ reporters[r].pc = "tracking"
    /\ LET e == reporters[r].args[1]
       IN  /\ metrics' = TrackResults(TrackApprovals(metrics, e.approvals), e.results)
           /\ record_log' = Append(record_log, [reporter |-> r, args |-> e])
    /\ reporters' = [reporters EXCEPT ![r] = [pc |-> "idle", args |-> << >>,
                                              loaded |-> 0]]
    /\ running' = After(r, "idle")
    /\ UNCHANGED reader
    /\ UNCHANGED not_metrics_vars

\* lines 188-190: get_summary is called; nothing recorded yet
SummaryCheck ==
    /\ MayRun("reader")
    /\ reader.pc = "idle"
    /\ IF metrics.executions = << >>
       THEN /\ reader' = [pc |-> "idle",
                          result |-> << [kind |-> "summary", summary |-> DefaultSummary] >>]
            /\ running' = After("reader", "idle")
       ELSE /\ reader' = [pc |-> "build", result |-> << >>]
            /\ running' = After("reader", "build")
    /\ UNCHANGED <<metrics, reporters, record_log>>
    /\ UNCHANGED not_metrics_vars

\* lines 192-254
SummaryBuild ==
    /\ MayRun("reader")
    /\ reader.pc = "build"
    /\ reader' = [pc |-> "idle", result |-> << SummaryOrError(metrics) >>]
    /\ running' = After("reader", "idle")
    /\ UNCHANGED <<metrics, reporters, record_log>>
    /\ UNCHANGED not_metrics_vars

MetricsNext ==
    \/ \E r \in ReporterIds : BeginRun(r)
    \/ \E r \in ReporterIds : RunReturns(r)
    \/ \E r \in ReporterIds : AppendExecutionData(r)
    \/ \E r \in ReporterIds : LoadTotal(r)
    \/ \E r \in ReporterIds : StoreTotal(r)
    \/ \E r \in ReporterIds : LoadOutcome(r)
    \/ \E r \in ReporterIds : StoreOutcome(r)
    \/ \E r \in ReporterIds : AppendHistories(r)
    \/ \E r \in ReporterIds : TrackAndReturn(r)
    \/ SummaryCheck
    \/ SummaryBuild

MetricsSpec == MetricsInit /\ [][MetricsNext]_vars

-----------------------------------------------------------------------------
(* Properties of the aggregator.                                           *)

\* no record_execution call is under way
NoCallUnderWay == \A r \in ReporterIds : reporters[r].pc \in {"idle", "awaiting"}

Successes(n) == Cardinality({i \in 1..n : record_log[i].args.success})

\* the aggregator after the first n completed calls, one after the other
RECURSIVE Replay(_)
Replay(n) == IF n = 0 THEN NewAggregator
             ELSE RecordExecution(Replay(n - 1), record_log[n].args)

\* C32: when several runs report to record_execution concurrently no update
\* is lost: once N calls have completed, total_executions is N, the
\* successful and failed counts add up to N, and the executions, latency
\* and budget histories hold N entries each.
C32_NoUpdateLost ==
    NoCallUnderWay =>
        LET n == Len(record_log)
        IN  /\ metrics.total_executions = n
            /\ metrics.successful_executions + metrics.failed_executions = n
            /\ Len(metrics.executions) = n
            /\ Len(metrics.latencies) = n
            /\ Len(metrics.budget_used) = n

\* two calls completed, made by two runs, while a third run is still
\* awaiting its plan
C32_Witness ==
    /\ NoCallUnderWay
    /\ Len(record_log) = 2
    /\ record_log[1].reporter = "r1"
    /\ record_log[2].reporter = "r2"
    /\ reporters["r1"].pc = "awaiting"
    /\ metrics.total_executions = 2
    /\ Len(metrics.latencies) = 2

\* C33: get_summary running concurrently with record_execution never sees
\* a partially applied record and never fails: while the summary is built
\* executions and the counters agree, and what it returns is the summary
\* of the aggregator after some number of whole calls.
C33_SummarySeesWholeRecords ==
    /\ reader.pc = "build" =>
          /\ Len(metrics.executions) = metrics.total_executions
          /\ metrics.total_executions =
                 metrics.successful_executions + metrics.failed_executions
    /\ reader.result # << >> =>
          /\ reader.result[1].kind = "summary"
          /\ \E n \in 0..Len(record_log) : reader.result[1] = GetSummary(Replay(n))
          /\ LET s == reader.result[1].summary
             IN  s.total_executions = s.successful_executions + s.failed_executions

\* a summary of one execution is held while a second call has completed
\* and a run is still awaiting
C33_Witness ==
    /\ reader.result # << >>
    /\ reader.result[1].kind = "summary"
    /\ reader.result[1].summary.total_executions = 1
    /\ Len(record_log) = 2
    /\ \E r \in ReporterIds : reporters[r].pc = "awaiting"

\* C34: after any sequence of record_execution calls get_summary reports
\* total = the number of calls, successful = the calls with success true,
\* failed = the rest, success_rate = successful / total and error_rate =
\* failed / total, which add up to 1; with no call recorded every field is
\* zero.
C34_SummaryCounts ==
    /\ NoCallUnderWay =>
          LET g  == GetSummary(metrics)
              n  == Len(record_log)
              ok == Successes(n)
          IN  /\ g.kind = "summary"
              /\ g.summary.total_executions = n
              /\ g.summary.successful_executions = ok
              /\ g.summary.failed_executions = n - ok
              /\ n = 0 => g.summary = DefaultSummary
              /\ n > 0 =>
                    /\ g.summary.success_rate = Ratio(ok, n)
                    /\ g.summary.error_rate = Ratio(n - ok, n)
                    /\ g.summary.success_rate.num + g.summary.error_rate.num = n
    /\ (reader.result # << >> /\ reader.result[1].kind = "summary") =>
          LET s == reader.result[1].summary
              n == s.total_executions
          IN  /\ n <= Len(record_log)
              /\ s.successful_executions = Successes(n)
              /\ s.failed_executions = n - Successes(n)
              /\ n = 0 => s = DefaultSummary
              /\ n > 0 => /\ s.success_rate = Ratio(Successes(n), n)
                          /\ s.error_rate = Ratio(n - Successes(n), n)

\* get_summary has returned the summary of three calls, one of them
\* successful
C34_Witness ==
    /\ NoCallUnderWay
    /\ Len(record_log) = 3
    /\ Successes(3) = 1
    /\ reader.result # << >>
    /\ reader.result[1].kind = "summary"
    /\ reader.result[1].summary.total_executions = 3
    /\ reader.result[1].summary.success_rate = Ratio(1, 3)
    /\ reader.result[1].summary.error_rate = Ratio(2, 3)

====
